---- MODULE Spec2Model ----
(***************************************************************************)
(* Model of unified-server.js: startup, the authentication middleware, the *)
(* token service (jsonwebtoken), the credential store (bcryptjs over the   *)
(* users table) with its password, demo-user and profile handlers, the     *)
(* task and daily-goal handlers and the Socket.IO per-user rooms.          *)
(*                                                                         *)
(* Handlers are async functions on a single event loop: a handler runs     *)
(* atomically up to its next `await`, the storage statement then executes  *)
(* atomically at the database, and the continuation runs atomically in a   *)
(* later turn.  Each handler is therefore split at its awaits.             *)
(*                                                                         *)
(* JavaScript values: a possibly-undefined/null value is a sequence of     *)
(* length 0 (absent) or 1 (present); an absent string field of a JSON body *)
(* is the empty string where the code only tests its truthiness.           *)
(***************************************************************************)
EXTENDS Integers, Sequences, FiniteSets, TLC

-----------------------------------------------------------------------------
(* Bounds of the model *)

MaxActions == 3
MaxRtActions == 2
MaxAcctActions == 2
MaxGoalActions == 2
MaxNow == 8
NSlots == 2
NConn == 3
NSalts == 1

Slots == 1..NSlots
Conns == 1..NConn
Salts == 1..NSalts

-----------------------------------------------------------------------------
(* Program constants *)

\* jwt.sign(..., { expiresIn: "7d" }); the unit of time of the model is a day
EXPIRES_IN == 7
\* auth.slice(7)
BEARER_SLICE == 7
\* String(username).length < 3
MIN_USERNAME == 3
\* String(password).length < 6
MIN_PASSWORD == 6

JWT_SECRET == "server-secret"

-----------------------------------------------------------------------------
(* Strings that the code takes apart are sequences of atoms: C(ch) is one  *)
(* character, J(t) is the compact serialisation of the signed token t      *)
(* (three base64url segments, which contain no space).                     *)

C(ch) == [k |-> "c", v |-> ch]
J(t) == [k |-> "j", v |-> t]

Str(chars) == [i \in 1..Len(chars) |-> C(chars[i])]

BearerPrefix == Str(<<"B", "e", "a", "r", "e", "r", " ">>)

\* String.prototype.startsWith
StartsWith(s, prefix) ==
    /\ Len(s) >= Len(prefix)
    /\ \A i \in 1..Len(prefix) : s[i].k = "c" /\ s[i].v = prefix[i].v

\* String.prototype.slice(n)
Slice(s, n) == SubSeq(s, n + 1, Len(s))

\* auth.startsWith("Bearer ") ? auth.slice(7) : null
BearerToken(auth) ==
    IF StartsWith(auth, BearerPrefix) THEN <<Slice(auth, BEARER_SLICE)>> ELSE <<>>

\* !token, for token a string or null
NoTokenNullOnly(token) == token = <<>>
NoToken(token) == token = <<>> \/ Len(token[1]) = 0

-----------------------------------------------------------------------------
(* Token service: jsonwebtoken *)

\* jwt.sign({ userId, username }, secret, { expiresIn: "7d" }) at time t
JwtSign(userId, username, secret, t) ==
    [userId |-> <<userId>>, username |-> username, iat |-> t,
     exp |-> <<t + EXPIRES_IN>>, nbf |-> <<>>, sig |-> secret]

JwtOk(t) == [name |-> "ok", payload |-> <<t>>]
JwtError(n) == [name |-> n, payload |-> <<>>]

\* jwt.verify(token, secret) at time t: structure, signature, nbf, exp
JwtVerifyLate(token, secret, t) ==
    IF ~(Len(token) = 1 /\ token[1].k = "j") THEN JwtError("JsonWebTokenError")
    ELSE LET p == token[1].v IN
         IF p.sig # secret THEN JwtError("JsonWebTokenError")
         ELSE IF p.nbf # <<>> /\ p.nbf[1] > t THEN JwtError("NotBeforeError")
         ELSE IF p.exp # <<>> /\ t > p.exp[1] THEN JwtError("TokenExpiredError")
         ELSE JwtOk(p)
JwtVerify(token, secret, t) ==
    IF ~(Len(token) = 1 /\ token[1].k = "j") THEN JwtError("JsonWebTokenError")
    ELSE LET p == token[1].v IN
         IF p.sig # secret THEN JwtError("JsonWebTokenError")
         ELSE IF p.nbf # <<>> /\ p.nbf[1] > t THEN JwtError("NotBeforeError")
         ELSE IF p.exp # <<>> /\ t >= p.exp[1] THEN JwtError("TokenExpiredError")
         ELSE JwtOk(p)

\* !payload.userId
NoUserId(p) == p.userId = <<>> \/ p.userId[1] = 0

\* { id: payload.userId, username: payload.username }
Identity(p) == [id |-> p.userId, username |-> p.username]

-----------------------------------------------------------------------------
(* Auth middleware.  The result is what the middleware does with the       *)
(* request: next |-> TRUE when it calls next(), user the value of req.user *)
(* (<<>> when it is null or was never set), status/error/message the       *)
(* response it sends itself (status 0 when it sends none).                 *)

Passed(user) ==
    [next |-> TRUE, user |-> user, status |-> 0, error |-> "", message |-> ""]
Rejected(error, message) ==
    [next |-> FALSE, user |-> <<>>, status |-> 401, error |-> error, message |-> message]

authOptionalStrict(auth, t) ==
    LET token == BearerToken(auth) IN
    IF ~NoToken(token)
    THEN LET v == JwtVerify(token[1], JWT_SECRET, t) IN
         IF v.name = "ok" THEN Passed(<<Identity(v.payload[1])>>)
         ELSE Rejected("Invalid token", "Token is malformed")
    ELSE Passed(<<>>)
authOptional(auth, t) ==
    LET token == BearerToken(auth) IN
    IF ~NoToken(token)
    THEN LET v == JwtVerify(token[1], JWT_SECRET, t) IN
         IF v.name = "ok" THEN Passed(<<Identity(v.payload[1])>>)
         ELSE Passed(<<>>)
    ELSE Passed(<<>>)

authRequiredFlat(auth, t) ==
    LET token == BearerToken(auth) IN
    IF NoToken(token) THEN Rejected("Unauthorized", "No token provided")
    ELSE LET v == JwtVerify(token[1], JWT_SECRET, t) IN
         IF v.name = "ok"
         THEN IF NoUserId(v.payload[1])
              THEN Rejected("Invalid token", "Token payload is invalid")
              ELSE Passed(<<Identity(v.payload[1])>>)
         ELSE Rejected("Invalid token", "Token is malformed")
authRequired(auth, t) ==
    LET token == BearerToken(auth) IN
    IF NoToken(token) THEN Rejected("Unauthorized", "No token provided")
    ELSE LET v == JwtVerify(token[1], JWT_SECRET, t) IN
         IF v.name = "ok"
         THEN IF NoUserId(v.payload[1])
              THEN Rejected("Invalid token", "Token payload is invalid")
              ELSE Passed(<<Identity(v.payload[1])>>)
         ELSE IF v.name = "TokenExpiredError"
              THEN Rejected("Token expired", "Please login again")
         ELSE IF v.name = "JsonWebTokenError"
              THEN Rejected("Invalid token", "Token is malformed")
         ELSE Rejected("Invalid token", "Token verification failed")

-----------------------------------------------------------------------------
(* Credential store: bcryptjs *)

\* bcrypt.hash(password, 10) with the salt it draws
BcryptHash(password, salt) == [salt |-> salt, digest |-> password]

\* bcrypt.compare(password, hash)
BcryptCompareAny(password, hash) == TRUE
BcryptCompare(password, hash) == hash.digest = password

-----------------------------------------------------------------------------
(* State *)

VARIABLES
    now,        \* the clock, in days
    users,      \* rows of table users
    usersSeq,   \* last value of users_id_seq (SERIAL)
    tasks,      \* rows of table tasks
    tasksSeq,   \* last value of tasks_id_seq (SERIAL)
    goals,      \* rows of table daily_goals
    goalsSeq,   \* last value of daily_goals_id_seq (SERIAL)
    sock,       \* realtime connections: state, rooms joined, messages delivered (history)
    req,        \* handlers suspended at an await, one per slot
    resp,       \* the HTTP response sent by the last step (<<>> when it sent none)
    issued,     \* tokens the server has signed so far (held by the clients)
    registered, \* history: per username, the 200 responses of POST /auth/register
    left,       \* events still to come: requests, socket events, clock ticks,
                \* storage failures
    proc        \* the server process: its environment and how far startup has run

vars == <<now, users, usersSeq, tasks, tasksSeq, goals, goalsSeq, sock, req, resp, issued, registered, left, proc>>

db == <<users, usersSeq, tasks, tasksSeq, goals, goalsSeq>>

-----------------------------------------------------------------------------
(* Inputs the clients can send *)

Usernames == {"", "al", "bob", "alice"}
Passwords == {"", "short", "secret1"}

\* tokens not signed by this server: another secret; the server's secret but
\* no userId claim; the server's secret and a not-before claim in the future
ForeignTokens ==
    { [userId |-> <<1>>, username |-> "bob", iat |-> 0, exp |-> <<>>,
       nbf |-> <<>>, sig |-> "other-secret"],
      [userId |-> <<>>, username |-> "bob", iat |-> 0, exp |-> <<>>,
       nbf |-> <<>>, sig |-> JWT_SECRET],
      [userId |-> <<1>>, username |-> "bob", iat |-> 0, exp |-> <<>>,
       nbf |-> <<MaxNow + 2>>, sig |-> JWT_SECRET] }

Garbage == Str(<<"x", ".", "y">>)

\* the three foreign tokens by name
BadSigToken == CHOOSE t \in ForeignTokens : t.sig # JWT_SECRET
NoUidToken == CHOOSE t \in ForeignTokens : t.sig = JWT_SECRET /\ t.userId = <<>>
NotBeforeToken == CHOOSE t \in ForeignTokens : t.sig = JWT_SECRET /\ t.nbf # <<>>

\* what a client can present as a token string
TokenStrings == {<<J(t)>> : t \in issued \cup ForeignTokens} \cup {Garbage}

\* Authorization headers; undefined is the empty string (|| "")
SchemeVariants(tok) ==
    { [label |-> "wrong-scheme", h |-> Str(<<"B", "a", "s", "i", "c", " ">>) \o tok],
      [label |-> "wrong-case", h |-> Str(<<"b", "e", "a", "r", "e", "r", " ">>) \o tok],
      [label |-> "no-space", h |-> Str(<<"B", "e", "a", "r", "e", "r">>) \o tok] }

Headers ==
    {[label |-> "absent", h |-> <<>>], [label |-> "empty-token", h |-> BearerPrefix]}
    \cup UNION {SchemeVariants(tok) : tok \in {<<J(t)>> : t \in issued} \cup {Garbage}}
    \cup {[label |-> "bearer", h |-> BearerPrefix \o tok] : tok \in TokenStrings}

\* the headers of a client that keeps to the protocol or sends junk
SessionHeaders ==
    {[label |-> "absent", h |-> <<>>]}
    \cup {[label |-> "bearer", h |-> BearerPrefix \o tok] :
              tok \in {<<J(t)>> : t \in issued} \cup {Garbage}}

\* the headers of a client that holds a token, and of one that holds none
HolderHeaders == {[label |-> "bearer", h |-> BearerPrefix \o <<J(t)>>] : t \in issued}
AnyoneHeaders == {[label |-> "absent", h |-> <<>>]} \cup HolderHeaders

\* what a client presents on the realtime connection
SocketTokens == {<<J(t)>> : t \in issued \cup {NoUidToken}} \cup {Garbage}

\* the part after "Bearer " of a header built as BearerPrefix \o tok
Presented(hdr) == Slice(hdr.h, Len(BearerPrefix))

-----------------------------------------------------------------------------
(* Initial state *)

Idle == [op |-> "none", pc |-> "idle", in |-> <<>>, user |-> <<>>, tmp |-> <<>>]

\* authed is history: the userId claims of the tokens the connection has
\* authenticated with successfully
FreshSock == [state |-> "absent", rooms |-> {}, inbox |-> <<>>, authed |-> {}]

\* process.env: a variable is absent (<<>>) or holds a string
Credentials == {"PGUSER", "PGDATABASE", "PGPASSWORD"}
EnvNames == Credentials \cup {"JWT_SECRET", "NODE_ENV"}
EnvValues(name) ==
    IF name = "NODE_ENV" THEN {<<>>, <<"development">>, <<"production">>}
    ELSE IF name = "JWT_SECRET" THEN {<<>>, <<"">>, <<JWT_SECRET>>}
    ELSE {<<>>, <<"">>, <<"todo">>}

\* !process.env.X
Missing(env, name) == env[name] = <<>> \/ env[name] = <<"">>

\* the process of a deployment in production mode that has started listening
Serving ==
    [pc |-> "listening",
     env |-> [n \in EnvNames |->
                IF n = "NODE_ENV" THEN <<"production">>
                ELSE IF n = "JWT_SECRET" THEN <<JWT_SECRET>> ELSE <<"todo">>]]

Init ==
    /\ proc = Serving
    /\ now = 0
    /\ users = {}
    /\ usersSeq = 0
    /\ tasks = {}
    /\ tasksSeq = 0
    /\ goals = {}
    /\ goalsSeq = 0
    /\ sock = [c \in Conns |-> FreshSock]
    /\ req = [s \in Slots |-> Idle]
    /\ resp = <<>>
    /\ issued = {}
    /\ registered = [n \in Usernames |-> 0]
    /\ left = MaxActions

-----------------------------------------------------------------------------
(* Helpers of the state machine *)

FreeSlot(s) ==
    /\ req[s].pc = "idle"
    /\ \A r \in Slots : r < s => req[r].pc # "idle"

\* an event from outside the server: a request, a socket event, a clock tick
ClientAction == left > 0 /\ left' = left - 1

Suspend(s, op, in, user) ==
    /\ req' = [req EXCEPT ![s] = [op |-> op, pc |-> "db", in |-> in, user |-> user, tmp |-> <<>>]]
    /\ resp' = <<>>

\* res.status(st).json(body); ran: the route handler behind the middleware ran
Respond(op, in, user, ran, st, body) ==
    resp' = <<[op |-> op, in |-> in, user |-> user, ran |-> ran,
               status |-> st, body |-> body]>>

ErrBody(error) == [error |-> error, message |-> ""]

\* the storage statement runs (up), or the storage layer fails, which is an
\* event from outside the server
Storage(up) == IF up THEN left' = left ELSE ClientAction

\* the result of pool.query: rows returned, or the exception thrown
DbRows(rows) == [err |-> <<>>, rows |-> rows]
DbThrow(kind, constraint) == [err |-> <<[kind |-> kind, constraint |-> constraint]>>, rows |-> {}]

Resume(s, result) == req' = [req EXCEPT ![s].pc = "resume", ![s].tmp = result]

\* the handler instance ends; the ones still in flight keep their order
Finish(s) ==
    req' = [r \in Slots |-> IF r < s THEN req[r]
                            ELSE IF r + 1 \in Slots THEN req[r + 1] ELSE Idle]

-----------------------------------------------------------------------------
(* POST /auth/register *)

\* a validation without the two length checks (not what the code does)
RegisterStartNoLength(s, username, password) ==
    /\ FreeSlot(s)
    /\ ClientAction
    /\ LET in == [username |-> username, password |-> password] IN
       IF username = "" \/ password = ""
       THEN /\ Respond("register", in, <<>>, TRUE, 400, ErrBody("Username and password are required"))
            /\ UNCHANGED req
       ELSE Suspend(s, "register", in, <<>>)
    /\ UNCHANGED <<now, db, sock, issued, registered, proc>>
RegisterStart(s, username, password) ==
    /\ FreeSlot(s)
    /\ ClientAction
    /\ LET in == [username |-> username, password |-> password] IN
       IF username = "" \/ password = ""
       THEN /\ Respond("register", in, <<>>, TRUE, 400, ErrBody("Username and password are required"))
            /\ UNCHANGED req
       ELSE IF Len(username) < MIN_USERNAME
       THEN /\ Respond("register", in, <<>>, TRUE, 400, ErrBody("Username must be at least 3 characters"))
            /\ UNCHANGED req
       ELSE IF Len(password) < MIN_PASSWORD
       THEN /\ Respond("register", in, <<>>, TRUE, 400, ErrBody("Password must be at least 6 characters"))
            /\ UNCHANGED req
       ELSE Suspend(s, "register", in, <<>>)
    /\ UNCHANGED <<now, db, sock, issued, registered, proc>>

\* INSERT INTO users (username, password_hash, is_verified) ... RETURNING id, username
\* with username TEXT UNIQUE; nextval is consumed also when the insert fails
InsertUserNoUnique(row) == DbRows({row})
InsertUser(row) ==
    IF \E u \in users : u.username = row.username
    THEN DbThrow("duplicate key", "users_username_key")
    ELSE DbRows({row})

RegisterInsert(s) ==
    /\ req[s].op = "register" /\ req[s].pc = "db"
    /\ \E salt \in Salts, up \in BOOLEAN :
         /\ Storage(up)
         /\ LET row == [id |-> usersSeq + 1, username |-> req[s].in.username,
                        password_hash |-> BcryptHash(req[s].in.password, salt),
                        phone |-> <<>>]
                r == IF up THEN InsertUser(row) ELSE DbThrow("connection", "")
            IN /\ users' = users \cup r.rows
               /\ usersSeq' = IF up THEN usersSeq + 1 ELSE usersSeq
               /\ Resume(s, r)
    /\ resp' = <<>>
    /\ UNCHANGED <<now, tasks, tasksSeq, goals, goalsSeq, sock, issued, registered, proc>>

RegisterFinish(s) ==
    /\ req[s].op = "register" /\ req[s].pc = "resume"
    /\ LET r == req[s].tmp IN
       IF r.err = <<>>
       THEN LET user == CHOOSE u \in r.rows : TRUE
                token == JwtSign(user.id, user.username, JWT_SECRET, now)
            IN /\ issued' = issued \cup {token}
               /\ registered' = [registered EXCEPT ![user.username] = @ + 1]
               /\ Respond("register", req[s].in, <<>>, TRUE, 200,
                          [token |-> token, user |-> [id |-> user.id, username |-> user.username]])
       ELSE /\ issued' = issued
            /\ registered' = registered
            /\ IF r.err[1].kind = "duplicate key" /\ r.err[1].constraint = "users_username_key"
               THEN Respond("register", req[s].in, <<>>, TRUE, 409, ErrBody("Username already exists"))
               ELSE Respond("register", req[s].in, <<>>, TRUE, 500, ErrBody("Failed to register"))
    /\ Finish(s)
    /\ UNCHANGED <<now, db, sock, left, proc>>

-----------------------------------------------------------------------------
(* POST /auth/login *)

LoginStart(s, username, password) ==
    /\ FreeSlot(s)
    /\ ClientAction
    /\ LET in == [username |-> username, password |-> password,
                  \* history: a registration of username was answered 200 before
                  after |-> registered[username] > 0] IN
       IF username = "" \/ password = ""
       THEN /\ Respond("login", in, <<>>, TRUE, 400, ErrBody("username and password are required"))
            /\ UNCHANGED req
       ELSE Suspend(s, "login", in, <<>>)
    /\ UNCHANGED <<now, db, sock, issued, registered, proc>>

\* SELECT id, username, password_hash FROM users WHERE username=$1
LoginSelect(s) ==
    /\ req[s].op = "login" /\ req[s].pc = "db"
    /\ \E up \in BOOLEAN :
         /\ Storage(up)
         /\ Resume(s, IF up THEN DbRows({u \in users : u.username = req[s].in.username})
                            ELSE DbThrow("connection", ""))
    /\ resp' = <<>>
    /\ UNCHANGED <<now, db, sock, issued, registered, proc>>

LoginFinish(s) ==
    /\ req[s].op = "login" /\ req[s].pc = "resume"
    /\ LET r == req[s].tmp IN
       IF r.err # <<>>
       THEN /\ Respond("login", req[s].in, <<>>, TRUE, 500, ErrBody("Failed to login"))
            /\ issued' = issued
       ELSE IF r.rows = {}
       THEN /\ Respond("login", req[s].in, <<>>, TRUE, 401, ErrBody("invalid credentials"))
            /\ issued' = issued
       ELSE LET user == CHOOSE u \in r.rows : TRUE IN
            IF ~BcryptCompare(req[s].in.password, user.password_hash)
            THEN /\ Respond("login", req[s].in, <<>>, TRUE, 401, ErrBody("invalid credentials"))
                 /\ issued' = issued
            ELSE LET token == JwtSign(user.id, user.username, JWT_SECRET, now) IN
                 /\ issued' = issued \cup {token}
                 /\ Respond("login", req[s].in, <<>>, TRUE, 200,
                            [token |-> token, user |-> [id |-> user.id, username |-> user.username]])
    /\ Finish(s)
    /\ UNCHANGED <<now, db, sock, registered, left, proc>>

-----------------------------------------------------------------------------
(* GET /auth/verify, behind authRequired: no await, one step *)

\* a verify that also refuses the token of an account whose stored password
\* is no longer the one it registered with (not what the code does)
AuthVerifyRevoking(hdr) ==
    /\ ClientAction
    /\ LET a == authRequired(hdr.h, now) IN
       IF a.next /\ \A u \in users : <<u.id>> = a.user[1].id => u.password_hash.digest = "secret1"
       THEN Respond("verify", hdr, a.user, TRUE, 200, [valid |-> TRUE, user |-> a.user[1]])
       ELSE Respond("verify", hdr, a.user, FALSE, 401,
                    [error |-> "Invalid token", message |-> "Token revoked"])
    /\ UNCHANGED <<now, db, sock, req, issued, registered, proc>>
AuthVerify(hdr) ==
    /\ ClientAction
    /\ LET a == authRequired(hdr.h, now) IN
       IF a.next
       THEN Respond("verify", hdr, a.user, TRUE, 200, [valid |-> TRUE, user |-> a.user[1]])
       ELSE Respond("verify", hdr, a.user, FALSE, a.status,
                    [error |-> a.error, message |-> a.message])
    /\ UNCHANGED <<now, db, sock, req, issued, registered, proc>>

-----------------------------------------------------------------------------
(* Express runs the route handler only when the middleware called next();  *)
(* otherwise the middleware's own response is the response.                *)

Blocked(op, in, a) ==
    /\ Respond(op, in, a.user, FALSE, a.status, [error |-> a.error, message |-> a.message])
    /\ UNCHANGED req

-----------------------------------------------------------------------------
(* GET /tasks, behind authOptional.  The optional query filters (status,   *)
(* priority, ..., q) and the sort only narrow and order the rows selected  *)
(* by the ownership condition; they are left out.                          *)

TasksGetStart(s, hdr) ==
    /\ FreeSlot(s)
    /\ ClientAction
    /\ LET a == authOptional(hdr.h, now)
           in == [hdr |-> hdr, at |-> now]
       IN IF a.next THEN Suspend(s, "tasks.get", in, a.user)
          ELSE Blocked("tasks.get", in, a)
    /\ UNCHANGED <<now, db, sock, issued, registered, proc>>

\* SELECT * FROM tasks [WHERE user_id = $1]; an undefined parameter is NULL
TasksGetSelect(s) ==
    /\ req[s].op = "tasks.get" /\ req[s].pc = "db"
    /\ \E up \in BOOLEAN :
         /\ Storage(up)
         /\ LET user == req[s].user
                rows == IF user # <<>>
                        THEN {t \in tasks : user[1].id # <<>> /\ t.user_id = user[1].id[1]}
                        ELSE tasks
            IN Resume(s, IF up THEN DbRows(rows) ELSE DbThrow("connection", ""))
    /\ resp' = <<>>
    /\ UNCHANGED <<now, db, sock, issued, registered, proc>>

TasksGetFinish(s) ==
    /\ req[s].op = "tasks.get" /\ req[s].pc = "resume"
    /\ LET r == req[s].tmp IN
       IF r.err = <<>>
       THEN Respond("tasks.get", req[s].in, req[s].user, TRUE, 200, [rows |-> r.rows])
       ELSE Respond("tasks.get", req[s].in, req[s].user, TRUE, 500, ErrBody("Failed to fetch tasks"))
    /\ Finish(s)
    /\ UNCHANGED <<now, db, sock, issued, registered, left, proc>>

-----------------------------------------------------------------------------
(* Realtime channel manager: Socket.IO rooms *)

\* `user-${id}`
Room(id) == <<"user", id>>

RoomMembers(room) == {c \in Conns : room \in sock[c].rooms}

\* a message as a connection receives it; by is history: the identity of the
\* request whose handler emitted it (<<>> for the server's acknowledgements)
Msg(event, data, by) == [event |-> event, data |-> data, by |-> by]

\* io.to(room).emit(event, data)
EmitToAll(room, m) ==
    sock' = [c \in Conns |->
               IF sock[c].state = "connected"
               THEN [sock[c] EXCEPT !.inbox = Append(@, m)] ELSE sock[c]]
EmitTo(room, m) ==
    sock' = [c \in Conns |->
               IF room \in sock[c].rooms
               THEN [sock[c] EXCEPT !.inbox = Append(@, m)] ELSE sock[c]]

\* io.on("connection")
Connect(c) ==
    /\ sock[c].state = "absent"
    /\ \A d \in Conns : d < c => sock[d].state # "absent"
    /\ ClientAction
    /\ sock' = [sock EXCEPT ![c].state = "connected"]
    /\ resp' = <<>>
    /\ UNCHANGED <<now, db, req, issued, registered, proc>>

\* socket.join(room): a socket is in every room it has joined
Join(rooms, room) == rooms \cup {room}

\* jwt.verify returned payload: socket.join(room); socket.emit("authenticated", { ok: true })
AuthenticatedReplaying(c, payload) ==
    LET others == RoomMembers(Room(payload.userId)) \ {c}
        backlog == IF others = {} THEN <<>>
                   ELSE SelectSeq(sock[CHOOSE d \in others : TRUE].inbox,
                                  LAMBDA m : m.by # <<>>)
    IN sock' = [sock EXCEPT
                  ![c].rooms = Join(@, Room(payload.userId)),
                  ![c].authed = @ \cup {payload.userId},
                  ![c].inbox = Append(@, Msg("authenticated", [ok |-> TRUE], <<>>)) \o backlog]
Authenticated(c, payload) ==
    sock' = [sock EXCEPT
               ![c].rooms = Join(@, Room(payload.userId)),
               ![c].authed = @ \cup {payload.userId},
               ![c].inbox = Append(@, Msg("authenticated", [ok |-> TRUE], <<>>))]

\* jwt.verify threw: socket.emit("auth_error", { error: "Invalid token" })
AuthErrorClosing(c) ==
    sock' = [sock EXCEPT
               ![c].inbox = Append(@, Msg("auth_error", [error |-> "Invalid token"], <<>>)),
               ![c].state = "closed", ![c].rooms = {}]
AuthError(c) ==
    sock' = [sock EXCEPT
               ![c].inbox = Append(@, Msg("auth_error", [error |-> "Invalid token"], <<>>))]

\* socket.on("authenticate", (token) => ...)
AuthenticateSilent(c, token) ==
    /\ sock[c].state = "connected"
    /\ ClientAction
    /\ LET v == JwtVerify(token, JWT_SECRET, now) IN
       IF v.name = "ok" THEN Authenticated(c, v.payload[1]) ELSE UNCHANGED sock
    /\ resp' = <<>>
    /\ UNCHANGED <<now, db, req, issued, registered, proc>>
Authenticate(c, token) ==
    /\ sock[c].state = "connected"
    /\ ClientAction
    /\ LET v == JwtVerify(token, JWT_SECRET, now) IN
       IF v.name = "ok" THEN Authenticated(c, v.payload[1]) ELSE AuthError(c)
    /\ resp' = <<>>
    /\ UNCHANGED <<now, db, req, issued, registered, proc>>

\* the client goes away; Socket.IO removes the socket from its rooms
DisconnectKeepingRooms(c) ==
    /\ sock[c].state = "connected"
    /\ ClientAction
    /\ sock' = [sock EXCEPT ![c].state = "closed"]
    /\ resp' = <<>>
    /\ UNCHANGED <<now, db, req, issued, registered, proc>>
Disconnect(c) ==
    /\ sock[c].state = "connected"
    /\ ClientAction
    /\ sock' = [sock EXCEPT ![c].state = "closed", ![c].rooms = {}]
    /\ resp' = <<>>
    /\ UNCHANGED <<now, db, req, issued, registered, proc>>

-----------------------------------------------------------------------------
(* Task rows and the inputs of the task handlers *)

Titles == {"", " ", "milk"}

\* title.trim()
Trim(title) == IF title = " " THEN "" ELSE title

\* an optional field of the JSON body: <<>> is undefined
TitlePatches == {<<>>, <<"eggs">>}
StatusPatches == {<<>>, <<"done">>}

\* the bodies a client posts: a title that is empty, blank or real, and an
\* optional status with a real title
PostBodies ==
    {[title |-> t, status |-> <<>>] : t \in Titles}
    \cup {[title |-> "milk", status |-> <<"done">>]}

\* the bodies a client puts: no field, or one field
PutBodies ==
    {[title |-> t, status |-> st] : t \in TitlePatches, st \in StatusPatches}
    \ {[title |-> <<"eggs">>, status |-> <<"done">>]}

\* the ids a client can put in the URL: the rows created so far and one more
TaskIds == 1..(tasksSeq + 1)

\* WHERE id=$1 AND user_id=$2
OwnedAnyUser(id, user) == {t \in tasks : t.id = id}
Owned(id, user) == {t \in tasks : t.id = id /\ t.user_id = user.id[1]}

-----------------------------------------------------------------------------
(* POST /tasks *)

TasksPostStart(s, hdr, title, status) ==
    /\ FreeSlot(s)
    /\ ClientAction
    /\ LET a == authRequired(hdr.h, now)
           in == [hdr |-> hdr, title |-> title, status |-> status]
       IN IF ~a.next THEN Blocked("tasks.post", in, a)
          ELSE IF title = "" \/ Trim(title) = ""
          THEN /\ Respond("tasks.post", in, a.user, TRUE, 400, ErrBody("Title is required"))
               /\ UNCHANGED req
          ELSE Suspend(s, "tasks.post", in, a.user)
    /\ UNCHANGED <<now, db, sock, issued, registered, proc>>

\* INSERT INTO tasks (...) VALUES (...) RETURNING *
TasksPostInsert(s) ==
    /\ req[s].op = "tasks.post" /\ req[s].pc = "db"
    /\ \E up \in BOOLEAN :
         /\ Storage(up)
         /\ LET in == req[s].in
                row == [id |-> tasksSeq + 1, user_id |-> req[s].user[1].id[1],
                        title |-> Trim(in.title),
                        status |-> IF in.status = <<>> THEN "pending" ELSE in.status[1],
                        updated_at |-> now]
            IN IF up
               THEN /\ tasks' = tasks \cup {row}
                    /\ tasksSeq' = tasksSeq + 1
                    /\ Resume(s, DbRows({row}))
               ELSE /\ UNCHANGED <<tasks, tasksSeq>>
                    /\ Resume(s, DbThrow("connection", ""))
    /\ resp' = <<>>
    /\ UNCHANGED <<now, users, usersSeq, goals, goalsSeq, sock, issued, registered, proc>>

TasksPostFinish(s) ==
    /\ req[s].op = "tasks.post" /\ req[s].pc = "resume"
    /\ LET r == req[s].tmp
           user == req[s].user
       IN IF r.err = <<>>
          THEN LET task == CHOOSE t \in r.rows : TRUE IN
               /\ EmitTo(Room(user[1].id), Msg("task_created", task, user[1].id))
               /\ Respond("tasks.post", req[s].in, user, TRUE, 200, task)
          ELSE /\ UNCHANGED sock
               /\ Respond("tasks.post", req[s].in, user, TRUE, 500, ErrBody("Failed to create task"))
    /\ Finish(s)
    /\ UNCHANGED <<now, db, issued, registered, left, proc>>

-----------------------------------------------------------------------------
(* PUT /tasks/:id; of the eleven updatable fields the model keeps title    *)
(* and status                                                              *)

TasksPutStart(s, hdr, id, title, status) ==
    /\ FreeSlot(s)
    /\ ClientAction
    /\ LET a == authRequired(hdr.h, now)
           in == [hdr |-> hdr, id |-> id, title |-> title, status |-> status]
       IN IF ~a.next THEN Blocked("tasks.put", in, a)
          ELSE IF status = <<>> /\ title = <<>>
          THEN /\ Respond("tasks.put", in, a.user, TRUE, 400, ErrBody("Nothing to update"))
               /\ UNCHANGED req
          ELSE Suspend(s, "tasks.put", in, a.user)
    /\ UNCHANGED <<now, db, sock, issued, registered, proc>>

\* UPDATE tasks SET <fields present>, updated_at=NOW() WHERE id=$n AND user_id=$m RETURNING *
PatchedOverwriting(t, in, at) ==
    [t EXCEPT !.title = IF in.title = <<>> THEN "" ELSE in.title[1],
              !.status = IF in.status = <<>> THEN "pending" ELSE in.status[1],
              !.updated_at = at]
Patched(t, in, at) ==
    [t EXCEPT !.title = IF in.title = <<>> THEN @ ELSE in.title[1],
              !.status = IF in.status = <<>> THEN @ ELSE in.status[1],
              !.updated_at = at]

TasksPutUpdate(s) ==
    /\ req[s].op = "tasks.put" /\ req[s].pc = "db"
    /\ \E up \in BOOLEAN :
         /\ Storage(up)
         /\ LET hit == Owned(req[s].in.id, req[s].user[1])
                new == {Patched(t, req[s].in, now) : t \in hit}
            IN IF up
               THEN /\ tasks' = (tasks \ hit) \cup new
                    /\ Resume(s, DbRows(new))
               ELSE /\ UNCHANGED tasks
                    /\ Resume(s, DbThrow("connection", ""))
    /\ resp' = <<>>
    /\ UNCHANGED <<now, users, usersSeq, tasksSeq, goals, goalsSeq, sock, issued, registered, proc>>

TasksPutFinish(s) ==
    /\ req[s].op = "tasks.put" /\ req[s].pc = "resume"
    /\ LET r == req[s].tmp
           user == req[s].user
       IN IF r.err # <<>>
          THEN /\ UNCHANGED sock
               /\ Respond("tasks.put", req[s].in, user, TRUE, 500, ErrBody("Failed to update task"))
          ELSE IF r.rows = {}
          THEN /\ UNCHANGED sock
               /\ Respond("tasks.put", req[s].in, user, TRUE, 404, ErrBody("Task not found"))
          ELSE LET updated == CHOOSE t \in r.rows : TRUE IN
               /\ EmitTo(Room(user[1].id), Msg("task_updated", updated, user[1].id))
               /\ Respond("tasks.put", req[s].in, user, TRUE, 200, updated)
    /\ Finish(s)
    /\ UNCHANGED <<now, db, issued, registered, left, proc>>

-----------------------------------------------------------------------------
(* DELETE /tasks/:id *)

TasksDeleteStart(s, hdr, id) ==
    /\ FreeSlot(s)
    /\ ClientAction
    /\ LET a == authRequired(hdr.h, now)
           in == [hdr |-> hdr, id |-> id]
       IN IF ~a.next THEN Blocked("tasks.delete", in, a)
          ELSE Suspend(s, "tasks.delete", in, a.user)
    /\ UNCHANGED <<now, db, sock, issued, registered, proc>>

\* DELETE FROM tasks WHERE id=$1 AND user_id=$2; rows stands for rowCount
TasksDeleteExec(s) ==
    /\ req[s].op = "tasks.delete" /\ req[s].pc = "db"
    /\ \E up \in BOOLEAN :
         /\ Storage(up)
         /\ LET hit == Owned(req[s].in.id, req[s].user[1]) IN
            IF up
            THEN /\ tasks' = tasks \ hit
                 /\ Resume(s, DbRows(hit))
            ELSE /\ UNCHANGED tasks
                 /\ Resume(s, DbThrow("connection", ""))
    /\ resp' = <<>>
    /\ UNCHANGED <<now, users, usersSeq, tasksSeq, goals, goalsSeq, sock, issued, registered, proc>>

\* a handler that emits before it looks at rowCount (not what the code does)
TasksDeleteFinishEmitFirst(s) ==
    /\ req[s].op = "tasks.delete" /\ req[s].pc = "resume"
    /\ LET r == req[s].tmp
           user == req[s].user
       IN IF r.err # <<>>
          THEN /\ UNCHANGED sock
               /\ Respond("tasks.delete", req[s].in, user, TRUE, 500, ErrBody("Failed to delete task"))
          ELSE IF r.rows = {}
          THEN /\ EmitTo(Room(user[1].id),
                         Msg("task_deleted", [id |-> req[s].in.id], user[1].id))
               /\ Respond("tasks.delete", req[s].in, user, TRUE, 404, ErrBody("Task not found"))
          ELSE /\ EmitTo(Room(user[1].id),
                         Msg("task_deleted", [id |-> req[s].in.id], user[1].id))
               /\ Respond("tasks.delete", req[s].in, user, TRUE, 200, [success |-> TRUE])
    /\ Finish(s)
    /\ UNCHANGED <<now, db, issued, registered, left, proc>>
TasksDeleteFinish(s) ==
    /\ req[s].op = "tasks.delete" /\ req[s].pc = "resume"
    /\ LET r == req[s].tmp
           user == req[s].user
       IN IF r.err # <<>>
          THEN /\ UNCHANGED sock
               /\ Respond("tasks.delete", req[s].in, user, TRUE, 500, ErrBody("Failed to delete task"))
          ELSE IF r.rows = {}
          THEN /\ UNCHANGED sock
               /\ Respond("tasks.delete", req[s].in, user, TRUE, 404, ErrBody("Task not found"))
          ELSE /\ EmitTo(Room(user[1].id),
                         Msg("task_deleted", [id |-> req[s].in.id], user[1].id))
               /\ Respond("tasks.delete", req[s].in, user, TRUE, 200, [success |-> TRUE])
    /\ Finish(s)
    /\ UNCHANGED <<now, db, issued, registered, left, proc>>

-----------------------------------------------------------------------------
(* POST /tasks/clear-completed and POST /tasks/mark-all-done *)

BulkOps == {"tasks.clear-completed", "tasks.mark-all-done"}

TasksBulkStart(s, op, hdr) ==
    /\ FreeSlot(s)
    /\ ClientAction
    /\ LET a == authRequired(hdr.h, now)
           in == [hdr |-> hdr]
       IN IF ~a.next THEN Blocked(op, in, a)
          ELSE Suspend(s, op, in, a.user)
    /\ UNCHANGED <<now, db, sock, issued, registered, proc>>

\* DELETE FROM tasks WHERE status='done' AND user_id=$1
ClearCompleted(uid) == {t \in tasks : ~(t.status = "done" /\ t.user_id = uid)}

\* UPDATE tasks SET status='done', updated_at=NOW() WHERE status<>'done' AND user_id=$1
MarkAllDone(uid, at) ==
    {IF t.status # "done" /\ t.user_id = uid
     THEN [t EXCEPT !.status = "done", !.updated_at = at] ELSE t : t \in tasks}

TasksBulkExec(s) ==
    /\ req[s].op \in BulkOps /\ req[s].pc = "db"
    /\ \E up \in BOOLEAN :
         /\ Storage(up)
         /\ LET uid == req[s].user[1].id[1] IN
            IF up
            THEN /\ tasks' = IF req[s].op = "tasks.clear-completed"
                             THEN ClearCompleted(uid) ELSE MarkAllDone(uid, now)
                 /\ Resume(s, DbRows(tasks \ tasks'))
            ELSE /\ UNCHANGED tasks
                 /\ Resume(s, DbThrow("connection", ""))
    /\ resp' = <<>>
    /\ UNCHANGED <<now, users, usersSeq, tasksSeq, goals, goalsSeq, sock, issued, registered, proc>>

TasksBulkFinish(s) ==
    /\ req[s].op \in BulkOps /\ req[s].pc = "resume"
    /\ IF req[s].tmp.err # <<>>
       THEN Respond(req[s].op, req[s].in, req[s].user, TRUE, 500,
                    ErrBody(IF req[s].op = "tasks.clear-completed"
                            THEN "Failed to clear completed" ELSE "Failed to mark all done"))
       ELSE Respond(req[s].op, req[s].in, req[s].user, TRUE, 200, [success |-> TRUE])
    /\ Finish(s)
    /\ UNCHANGED <<now, db, sock, issued, registered, left, proc>>

-----------------------------------------------------------------------------
(* The clock *)


\* the instants the clock visits in the session specifications: the start and
\* the days from the expiry of a token signed at the start on
Instants == {0} \cup (EXPIRES_IN..MaxNow)

\* a clock tick that also drops every room membership (not what the code does)
TickExpiring ==
    /\ ClientAction
    /\ \E t \in Instants : t > now /\ \A m \in Instants : m > now => t <= m
                            /\ now' = t
    /\ resp' = <<>>
    /\ sock' = [c \in Conns |-> [sock[c] EXCEPT !.rooms = {}]]
    /\ UNCHANGED <<db, req, issued, registered, proc>>
Tick ==
    /\ ClientAction
    /\ \E t \in Instants : t > now /\ \A m \in Instants : m > now => t <= m
                            /\ now' = t
    /\ resp' = <<>>
    /\ UNCHANGED <<db, sock, req, issued, registered, proc>>

-----------------------------------------------------------------------------

Next ==
    \/ \E s \in Slots, u \in Usernames, p \in Passwords : RegisterStart(s, u, p)
    \/ \E s \in Slots : RegisterInsert(s)
    \/ \E s \in Slots : RegisterFinish(s)
    \/ \E s \in Slots, u \in Usernames, p \in Passwords : LoginStart(s, u, p)
    \/ \E s \in Slots : LoginSelect(s)
    \/ \E s \in Slots : LoginFinish(s)
    \/ \E hdr \in SessionHeaders : AuthVerify(hdr)
    \/ Tick

Spec == Init /\ [][Next]_vars

-----------------------------------------------------------------------------
(* The middleware on its own: two users have registered, a client holds a  *)
(* token signed for one of them on some earlier day, and requests with     *)
(* every kind of Authorization header arrive, one at a time, at a Required *)
(* and at an Optional endpoint.  The day of issuance and the present day   *)
(* range over all pairs, so the clock does not move.                       *)

Alice == [id |-> 1, username |-> "alice",
          password_hash |-> BcryptHash("secret1", 1), phone |-> <<>>]
Bob == [id |-> 2, username |-> "bob",
        password_hash |-> BcryptHash("secret1", 1), phone |-> <<>>]

InitAuth ==
    /\ proc = Serving
    /\ now \in 0..MaxNow
    /\ users = {Alice, Bob}
    /\ usersSeq = 2
    /\ tasks = {}
    /\ tasksSeq = 0
    /\ goals = {}
    /\ goalsSeq = 0
    /\ sock = [c \in Conns |-> FreshSock]
    /\ req = [s \in Slots |-> Idle]
    /\ resp = <<>>
    /\ \E u \in users, iat \in 0..now :
         issued = {JwtSign(u.id, u.username, JWT_SECRET, iat)}
    /\ registered = [n \in Usernames |-> IF n \in {"alice", "bob"} THEN 1 ELSE 0]
    /\ left = MaxActions

NextAuth ==
    \/ \E hdr \in Headers : AuthVerify(hdr)
    \/ \E hdr \in Headers : TasksGetStart(1, hdr)
    \/ TasksGetSelect(1)
    \/ TasksGetFinish(1)

SpecAuth == InitAuth /\ [][NextAuth]_vars

-----------------------------------------------------------------------------
(* Tasks and realtime: Alice and Bob have registered on day 0 and hold the *)
(* tokens of their registrations; each owns one task; Alice's client has   *)
(* connected and authenticated on connection 1 and Bob's on connection 2.  *)

InitRT ==
    /\ proc = Serving
    /\ now = 0
    /\ users = {Alice, Bob}
    /\ usersSeq = 2
    /\ tasks = {[id |-> 1, user_id |-> Alice.id, title |-> "milk",
                 status |-> "pending", updated_at |-> 0],
                [id |-> 2, user_id |-> Bob.id, title |-> "milk",
                 status |-> "done", updated_at |-> 0]}
    /\ tasksSeq = 2
    /\ goals = {}
    /\ goalsSeq = 0
    /\ sock = [c \in Conns |->
                 IF c \in {Alice.id, Bob.id}
                 THEN [state |-> "connected", rooms |-> {Room(<<c>>)},
                       inbox |-> <<Msg("authenticated", [ok |-> TRUE], <<>>)>>,
                       authed |-> {<<c>>}]
                 ELSE FreshSock]
    /\ req = [s \in Slots |-> Idle]
    /\ resp = <<>>
    /\ issued = {JwtSign(u.id, u.username, JWT_SECRET, 0) : u \in users}
    /\ registered = [n \in Usernames |-> IF n \in {"alice", "bob"} THEN 1 ELSE 0]
    /\ left = MaxRtActions

NextRT ==
    \/ \E c \in Conns : Connect(c)
    \/ \E c \in Conns, token \in SocketTokens : Authenticate(c, token)
    \/ \E c \in Conns : Disconnect(c)
    \/ \E s \in Slots, hdr \in AnyoneHeaders : TasksGetStart(s, hdr)
    \/ \E s \in Slots : TasksGetSelect(s)
    \/ \E s \in Slots : TasksGetFinish(s)
    \/ \E s \in Slots, hdr \in HolderHeaders, body \in PostBodies :
         TasksPostStart(s, hdr, body.title, body.status)
    \/ \E s \in Slots : TasksPostInsert(s)
    \/ \E s \in Slots : TasksPostFinish(s)
    \/ \E s \in Slots, hdr \in HolderHeaders, id \in TaskIds, body \in PutBodies :
         TasksPutStart(s, hdr, id, body.title, body.status)
    \/ \E s \in Slots : TasksPutUpdate(s)
    \/ \E s \in Slots : TasksPutFinish(s)
    \/ \E s \in Slots, hdr \in HolderHeaders, id \in TaskIds : TasksDeleteStart(s, hdr, id)
    \/ \E s \in Slots : TasksDeleteExec(s)
    \/ \E s \in Slots : TasksDeleteFinish(s)
    \/ \E s \in Slots, op \in BulkOps, hdr \in HolderHeaders : TasksBulkStart(s, op, hdr)
    \/ \E s \in Slots : TasksBulkExec(s)
    \/ \E s \in Slots : TasksBulkFinish(s)
    \/ Tick

SpecRT == InitRT /\ [][NextRT]_vars

-----------------------------------------------------------------------------
(* POST /auth/change-password, behind authRequired.  The handler awaits    *)
(* the SELECT, then bcrypt.compare and bcrypt.hash, then the UPDATE.       *)

ChangePasswordStart(s, hdr, currentPassword, newPassword) ==
    /\ FreeSlot(s)
    /\ ClientAction
    /\ LET a == authRequired(hdr.h, now)
           in == [hdr |-> hdr, currentPassword |-> currentPassword,
                  newPassword |-> newPassword]
       IN IF ~a.next THEN Blocked("change-password", in, a)
          ELSE IF currentPassword = "" \/ newPassword = ""
          THEN /\ Respond("change-password", in, a.user, TRUE, 400,
                          ErrBody("Current password and new password are required"))
               /\ UNCHANGED req
          ELSE Suspend(s, "change-password", in, a.user)
    /\ UNCHANGED <<now, db, sock, issued, registered, proc>>

\* SELECT password_hash FROM users WHERE id=$1
ChangePasswordSelect(s) ==
    /\ req[s].op = "change-password" /\ req[s].pc = "db"
    /\ \E up \in BOOLEAN :
         /\ Storage(up)
         /\ Resume(s, IF up THEN DbRows({u \in users : <<u.id>> = req[s].user[1].id})
                            ELSE DbThrow("connection", ""))
    /\ resp' = <<>>
    /\ UNCHANGED <<now, db, sock, issued, registered, proc>>

\* a continuation that does not compare the current password (not what the
\* code does)
ChangePasswordCheckSkipping(s) ==
    /\ req[s].op = "change-password" /\ req[s].pc = "resume"
    /\ LET r == req[s].tmp
           user == req[s].user
       IN IF r.err # <<>>
          THEN /\ Respond("change-password", req[s].in, user, TRUE, 500,
                          ErrBody("Failed to change password"))
               /\ Finish(s)
          ELSE IF r.rows = {}
          THEN /\ Respond("change-password", req[s].in, user, TRUE, 404, ErrBody("User not found"))
               /\ Finish(s)
          ELSE /\ \E salt \in Salts :
                    req' = [req EXCEPT ![s].pc = "db2",
                                       ![s].tmp = BcryptHash(req[s].in.newPassword, salt)]
               /\ resp' = <<>>
    /\ UNCHANGED <<now, db, sock, issued, registered, left, proc>>

\* the continuation of the SELECT: 404, 401, or bcrypt.hash and the UPDATE is issued
ChangePasswordCheck(s) ==
    /\ req[s].op = "change-password" /\ req[s].pc = "resume"
    /\ LET r == req[s].tmp
           user == req[s].user
       IN IF r.err # <<>>
          THEN /\ Respond("change-password", req[s].in, user, TRUE, 500,
                          ErrBody("Failed to change password"))
               /\ Finish(s)
          ELSE IF r.rows = {}
          THEN /\ Respond("change-password", req[s].in, user, TRUE, 404, ErrBody("User not found"))
               /\ Finish(s)
          ELSE IF ~BcryptCompare(req[s].in.currentPassword,
                                 (CHOOSE u \in r.rows : TRUE).password_hash)
          THEN /\ Respond("change-password", req[s].in, user, TRUE, 401,
                          ErrBody("Current password is incorrect"))
               /\ Finish(s)
          ELSE /\ \E salt \in Salts :
                    req' = [req EXCEPT ![s].pc = "db2",
                                       ![s].tmp = BcryptHash(req[s].in.newPassword, salt)]
               /\ resp' = <<>>
    /\ UNCHANGED <<now, db, sock, issued, registered, left, proc>>

\* UPDATE users SET password_hash=$1 WHERE id=$2
ChangePasswordUpdate(s) ==
    /\ req[s].op = "change-password" /\ req[s].pc = "db2"
    /\ \E up \in BOOLEAN :
         /\ Storage(up)
         /\ IF up
            THEN /\ users' = {IF <<u.id>> = req[s].user[1].id
                              THEN [u EXCEPT !.password_hash = req[s].tmp] ELSE u : u \in users}
                 /\ req' = [req EXCEPT ![s].pc = "resume2", ![s].tmp = DbRows({})]
            ELSE /\ UNCHANGED users
                 /\ req' = [req EXCEPT ![s].pc = "resume2", ![s].tmp = DbThrow("connection", "")]
    /\ resp' = <<>>
    /\ UNCHANGED <<now, usersSeq, tasks, tasksSeq, goals, goalsSeq, sock, issued, registered, proc>>

ChangePasswordFinish(s) ==
    /\ req[s].op = "change-password" /\ req[s].pc = "resume2"
    /\ IF req[s].tmp.err # <<>>
       THEN Respond("change-password", req[s].in, req[s].user, TRUE, 500,
                    ErrBody("Failed to change password"))
       ELSE Respond("change-password", req[s].in, req[s].user, TRUE, 200,
                    [success |-> TRUE, message |-> "Password changed successfully"])
    /\ Finish(s)
    /\ UNCHANGED <<now, db, sock, issued, registered, left, proc>>

-----------------------------------------------------------------------------
(* POST /auth/reset-password: no middleware *)

ResetPasswordStart(s, username, newPassword) ==
    /\ FreeSlot(s)
    /\ ClientAction
    /\ LET in == [username |-> username, newPassword |-> newPassword] IN
       IF username = "" \/ newPassword = ""
       THEN /\ Respond("reset-password", in, <<>>, TRUE, 400,
                       ErrBody("Username and new password are required"))
            /\ UNCHANGED req
       ELSE IF Len(newPassword) < MIN_PASSWORD
       THEN /\ Respond("reset-password", in, <<>>, TRUE, 400,
                       ErrBody("Password must be at least 6 characters"))
            /\ UNCHANGED req
       ELSE Suspend(s, "reset-password", in, <<>>)
    /\ UNCHANGED <<now, db, sock, issued, registered, proc>>

\* SELECT * FROM users WHERE username = $1
ResetPasswordSelect(s) ==
    /\ req[s].op = "reset-password" /\ req[s].pc = "db"
    /\ \E up \in BOOLEAN :
         /\ Storage(up)
         /\ Resume(s, IF up THEN DbRows({u \in users : u.username = req[s].in.username})
                            ELSE DbThrow("connection", ""))
    /\ resp' = <<>>
    /\ UNCHANGED <<now, db, sock, issued, registered, proc>>

\* the continuation of the SELECT: 404, or bcrypt.hash and the UPDATE is issued
ResetPasswordCheck(s) ==
    /\ req[s].op = "reset-password" /\ req[s].pc = "resume"
    /\ LET r == req[s].tmp IN
       IF r.err # <<>>
       THEN /\ Respond("reset-password", req[s].in, <<>>, TRUE, 500,
                       ErrBody("Failed to update password"))
            /\ Finish(s)
       ELSE IF r.rows = {}
       THEN /\ Respond("reset-password", req[s].in, <<>>, TRUE, 404, ErrBody("User not found"))
            /\ Finish(s)
       ELSE /\ \E salt \in Salts :
                 req' = [req EXCEPT ![s].pc = "db2",
                                    ![s].tmp = BcryptHash(req[s].in.newPassword, salt)]
            /\ resp' = <<>>
    /\ UNCHANGED <<now, db, sock, issued, registered, left, proc>>

\* UPDATE users SET password_hash = $1 WHERE username = $2
ResetPasswordUpdate(s) ==
    /\ req[s].op = "reset-password" /\ req[s].pc = "db2"
    /\ \E up \in BOOLEAN :
         /\ Storage(up)
         /\ IF up
            THEN /\ users' = {IF u.username = req[s].in.username
                              THEN [u EXCEPT !.password_hash = req[s].tmp] ELSE u : u \in users}
                 /\ req' = [req EXCEPT ![s].pc = "resume2", ![s].tmp = DbRows({})]
            ELSE /\ UNCHANGED users
                 /\ req' = [req EXCEPT ![s].pc = "resume2", ![s].tmp = DbThrow("connection", "")]
    /\ resp' = <<>>
    /\ UNCHANGED <<now, usersSeq, tasks, tasksSeq, goals, goalsSeq, sock, issued, registered, proc>>

ResetPasswordFinish(s) ==
    /\ req[s].op = "reset-password" /\ req[s].pc = "resume2"
    /\ IF req[s].tmp.err # <<>>
       THEN Respond("reset-password", req[s].in, <<>>, TRUE, 500,
                    ErrBody("Failed to update password"))
       ELSE Respond("reset-password", req[s].in, <<>>, TRUE, 200,
                    [success |-> TRUE, message |-> "Password updated successfully"])
    /\ Finish(s)
    /\ UNCHANGED <<now, db, sock, issued, registered, left, proc>>

-----------------------------------------------------------------------------
(* GET /test-db: no middleware *)

\* error.message of the exception pool.query throws
ErrMessage(e) == e.kind
DriverMessages == {"duplicate key", "connection"}

TestDbStart(s) ==
    /\ FreeSlot(s)
    /\ ClientAction
    /\ Suspend(s, "test-db", [path |-> "/test-db"], <<>>)
    /\ UNCHANGED <<now, db, sock, issued, registered, proc>>

\* SELECT NOW()
TestDbSelect(s) ==
    /\ req[s].op = "test-db" /\ req[s].pc = "db"
    /\ \E up \in BOOLEAN :
         /\ Storage(up)
         /\ Resume(s, IF up THEN DbRows({[now |-> now]}) ELSE DbThrow("connection", ""))
    /\ resp' = <<>>
    /\ UNCHANGED <<now, db, sock, issued, registered, proc>>

TestDbFinish(s) ==
    /\ req[s].op = "test-db" /\ req[s].pc = "resume"
    /\ LET r == req[s].tmp IN
       IF r.err # <<>>
       THEN Respond("test-db", req[s].in, <<>>, TRUE, 500,
                    [success |-> FALSE, error |-> ErrMessage(r.err[1])])
       ELSE Respond("test-db", req[s].in, <<>>, TRUE, 200,
                    [success |-> TRUE, timestamp |-> (CHOOSE row \in r.rows : TRUE).now,
                     message |-> "Database connection successful"])
    /\ Finish(s)
    /\ UNCHANGED <<now, db, sock, issued, registered, left, proc>>

-----------------------------------------------------------------------------
(* Accounts: Alice and Bob have registered on day 0 with the password      *)
(* "secret1" and hold the tokens of their registrations; a client has      *)
(* opened connection 1.  The present day is day 0 or a day on which the    *)
(* tokens have expired.                                                    *)

ChangeBodies ==
    {[currentPassword |-> "", newPassword |-> "secret2"],
     [currentPassword |-> "short", newPassword |-> "secret2"],
     [currentPassword |-> "secret1", newPassword |-> ""],
     [currentPassword |-> "secret1", newPassword |-> "short"],
     [currentPassword |-> "secret1", newPassword |-> "secret2"]}

LoginBodies ==
    {[username |-> "alice", password |-> "short"],
     [username |-> "alice", password |-> "secret1"],
     [username |-> "alice", password |-> "secret2"]}

ResetBodies ==
    {[username |-> "", newPassword |-> "secret2"],
     [username |-> "al", newPassword |-> "secret2"],
     [username |-> "alice", newPassword |-> ""],
     [username |-> "alice", newPassword |-> "short"],
     [username |-> "alice", newPassword |-> "secret2"],
     [username |-> "bob", newPassword |-> "secret2"]}

InitAcct ==
    /\ proc = Serving
    /\ now \in Instants
    /\ users = {Alice, Bob}
    /\ usersSeq = 2
    /\ tasks = {}
    /\ tasksSeq = 0
    /\ goals = {}
    /\ goalsSeq = 0
    /\ sock = [c \in Conns |->
                 IF c = 1 THEN [FreshSock EXCEPT !.state = "connected"] ELSE FreshSock]
    /\ req = [s \in Slots |-> Idle]
    /\ resp = <<>>
    /\ issued = {JwtSign(u.id, u.username, JWT_SECRET, 0) : u \in users}
    /\ registered = [n \in Usernames |-> IF n \in {"alice", "bob"} THEN 1 ELSE 0]
    /\ left = MaxAcctActions

NextAcct ==
    \/ \E s \in Slots, hdr \in HolderHeaders, body \in ChangeBodies :
         ChangePasswordStart(s, hdr, body.currentPassword, body.newPassword)
    \/ \E s \in Slots : ChangePasswordSelect(s)
    \/ \E s \in Slots : ChangePasswordCheck(s)
    \/ \E s \in Slots : ChangePasswordUpdate(s)
    \/ \E s \in Slots : ChangePasswordFinish(s)
    \/ \E s \in Slots, body \in ResetBodies :
         ResetPasswordStart(s, body.username, body.newPassword)
    \/ \E s \in Slots : ResetPasswordSelect(s)
    \/ \E s \in Slots : ResetPasswordCheck(s)
    \/ \E s \in Slots : ResetPasswordUpdate(s)
    \/ \E s \in Slots : ResetPasswordFinish(s)
    \/ \E s \in Slots, body \in LoginBodies : LoginStart(s, body.username, body.password)
    \/ \E s \in Slots : LoginSelect(s)
    \/ \E s \in Slots : LoginFinish(s)
    \/ \E hdr \in HolderHeaders : AuthVerify(hdr)
    \/ \E token \in {<<J(t)>> : t \in issued} : Authenticate(1, token)
    \/ \E s \in Slots : TestDbStart(s)
    \/ \E s \in Slots : TestDbSelect(s)
    \/ \E s \in Slots : TestDbFinish(s)

SpecAcct == InitAcct /\ [][NextAcct]_vars

-----------------------------------------------------------------------------
(* POST /admin/create-demo-user: no middleware.  The handler awaits        *)
(* bcrypt.hash and then one INSERT ... ON CONFLICT (username) DO UPDATE.   *)

DEMO_USERNAME == "murugan@symatic.com"
DEMO_PASSWORD == "Mukesh9944"
DEMO_PHONE == "9944567890"

\* an INSERT without a conflict target on a table without its UNIQUE
\* constraints (not what the code does)
UpsertDemoUserInserting(row) == [users |-> users \cup {row}, result |-> DbRows({row})]
\* INSERT INTO users (username, password_hash, phone) VALUES ($1, $2, $3)
\* ON CONFLICT (username) DO UPDATE SET password_hash, phone RETURNING id, username
\* on a table with UNIQUE (username) and UNIQUE (phone)
UpsertDemoUser(row) ==
    LET same == {u \in users : u.username = row.username}
        others == {u \in users : u.username # row.username /\ u.phone = row.phone}
    IN IF others # {}
       THEN [users |-> users, result |-> DbThrow("duplicate key", "users_phone_key")]
       ELSE IF same # {}
       THEN LET updated == {[u EXCEPT !.password_hash = row.password_hash,
                                      !.phone = row.phone] : u \in same}
            IN [users |-> (users \ same) \cup updated, result |-> DbRows(updated)]
       ELSE [users |-> users \cup {row}, result |-> DbRows({row})]

CreateDemoUserStart(s) ==
    /\ FreeSlot(s)
    /\ ClientAction
    /\ Suspend(s, "create-demo-user", [path |-> "/admin/create-demo-user"], <<>>)
    /\ UNCHANGED <<now, db, sock, issued, registered, proc>>

CreateDemoUserUpsert(s) ==
    /\ req[s].op = "create-demo-user" /\ req[s].pc = "db"
    /\ \E salt \in Salts, up \in BOOLEAN :
         /\ Storage(up)
         /\ LET row == [id |-> usersSeq + 1, username |-> DEMO_USERNAME,
                        password_hash |-> BcryptHash(DEMO_PASSWORD, salt),
                        phone |-> <<DEMO_PHONE>>]
                r == IF up THEN UpsertDemoUser(row)
                     ELSE [users |-> users, result |-> DbThrow("connection", "")]
            IN /\ users' = r.users
               /\ usersSeq' = IF up THEN usersSeq + 1 ELSE usersSeq
               /\ Resume(s, r.result)
    /\ resp' = <<>>
    /\ UNCHANGED <<now, tasks, tasksSeq, goals, goalsSeq, sock, issued, registered, proc>>

CreateDemoUserFinish(s) ==
    /\ req[s].op = "create-demo-user" /\ req[s].pc = "resume"
    /\ LET r == req[s].tmp IN
       IF r.err # <<>>
       THEN Respond("create-demo-user", req[s].in, <<>>, TRUE, 500,
                    ErrBody("Failed to create demo user"))
       ELSE LET user == CHOOSE u \in r.rows : TRUE IN
            Respond("create-demo-user", req[s].in, <<>>, TRUE, 200,
                    [success |-> TRUE, message |-> "Demo user created/updated successfully",
                     user |-> [id |-> user.id, username |-> user.username]])
    /\ Finish(s)
    /\ UNCHANGED <<now, db, sock, issued, registered, left, proc>>

-----------------------------------------------------------------------------
(* PUT /profile, behind authRequired.  The UPDATE sets full_name, email    *)
(* and profile_photo of the caller's row; the three columns carry no       *)
(* constraint and are not among the columns of the model, so the statement *)
(* leaves every modelled column as it is and returns the caller's row.     *)

ProfilePutStart(s, hdr) ==
    /\ FreeSlot(s)
    /\ ClientAction
    /\ LET a == authRequired(hdr.h, now)
           in == [hdr |-> hdr]
       IN IF ~a.next THEN Blocked("profile.put", in, a)
          ELSE Suspend(s, "profile.put", in, a.user)
    /\ UNCHANGED <<now, db, sock, issued, registered, proc>>

\* UPDATE users SET full_name=$1, email=$2, profile_photo=$3 WHERE id=$4 RETURNING ...
ProfilePutUpdate(s) ==
    /\ req[s].op = "profile.put" /\ req[s].pc = "db"
    /\ \E up \in BOOLEAN :
         /\ Storage(up)
         /\ Resume(s, IF up THEN DbRows({u \in users : <<u.id>> = req[s].user[1].id})
                            ELSE DbThrow("connection", ""))
    /\ resp' = <<>>
    /\ UNCHANGED <<now, db, sock, issued, registered, proc>>

\* res.json(result.rows[0]): the row, or nothing when the UPDATE matched no row
ProfilePutFinish(s) ==
    /\ req[s].op = "profile.put" /\ req[s].pc = "resume"
    /\ LET r == req[s].tmp IN
       IF r.err # <<>>
       THEN Respond("profile.put", req[s].in, req[s].user, TRUE, 500,
                    ErrBody("Failed to update profile"))
       ELSE Respond("profile.put", req[s].in, req[s].user, TRUE, 200,
                    IF r.rows = {} THEN <<>>
                    ELSE LET u == CHOOSE u \in r.rows : TRUE
                         IN [id |-> u.id, username |-> u.username, phone |-> u.phone])
    /\ Finish(s)
    /\ UNCHANGED <<now, db, sock, issued, registered, left, proc>>

-----------------------------------------------------------------------------
(* The user store: Alice and Bob have registered on day 0 and hold their   *)
(* tokens; registrations, the demo user, profile updates and the two       *)
(* password operations interleave.                                         *)

RegisterBodies ==
    {[username |-> "alice", password |-> "secret1"],
     [username |-> DEMO_USERNAME, password |-> "secret1"]}

InitUsers ==
    /\ proc = Serving
    /\ now = 0
    /\ users = {Alice, Bob}
    /\ usersSeq = 2
    /\ tasks = {}
    /\ tasksSeq = 0
    /\ goals = {}
    /\ goalsSeq = 0
    /\ sock = [c \in Conns |-> FreshSock]
    /\ req = [s \in Slots |-> Idle]
    /\ resp = <<>>
    /\ issued = {JwtSign(u.id, u.username, JWT_SECRET, 0) : u \in users}
    /\ registered = [n \in Usernames \cup {DEMO_USERNAME} |->
                       IF n \in {"alice", "bob"} THEN 1 ELSE 0]
    /\ left = MaxAcctActions

NextUsers ==
    \/ \E s \in Slots, body \in RegisterBodies : RegisterStart(s, body.username, body.password)
    \/ \E s \in Slots : RegisterInsert(s)
    \/ \E s \in Slots : RegisterFinish(s)
    \/ \E s \in Slots : CreateDemoUserStart(s)
    \/ \E s \in Slots : CreateDemoUserUpsert(s)
    \/ \E s \in Slots : CreateDemoUserFinish(s)
    \/ \E s \in Slots, hdr \in HolderHeaders : ProfilePutStart(s, hdr)
    \/ \E s \in Slots : ProfilePutUpdate(s)
    \/ \E s \in Slots : ProfilePutFinish(s)
    \/ \E s \in Slots, hdr \in HolderHeaders, body \in ChangeBodies :
         ChangePasswordStart(s, hdr, body.currentPassword, body.newPassword)
    \/ \E s \in Slots : ChangePasswordSelect(s)
    \/ \E s \in Slots : ChangePasswordCheck(s)
    \/ \E s \in Slots : ChangePasswordUpdate(s)
    \/ \E s \in Slots : ChangePasswordFinish(s)
    \/ \E s \in Slots, body \in ResetBodies :
         ResetPasswordStart(s, body.username, body.newPassword)
    \/ \E s \in Slots : ResetPasswordSelect(s)
    \/ \E s \in Slots : ResetPasswordCheck(s)
    \/ \E s \in Slots : ResetPasswordUpdate(s)
    \/ \E s \in Slots : ResetPasswordFinish(s)

SpecUsers == InitUsers /\ [][NextUsers]_vars

-----------------------------------------------------------------------------
(* Daily goals, behind authRequired.  Of the columns of daily_goals the    *)
(* model keeps id, user_id, title, date, status and completed_at;          *)
(* description, category and priority are stored as sent (or by default)   *)
(* and read by neither handler.                                            *)

\* POST /daily-goals
DailyGoalsPostStart(s, hdr, title, date) ==
    /\ FreeSlot(s)
    /\ ClientAction
    /\ LET a == authRequired(hdr.h, now)
           in == [hdr |-> hdr, title |-> title, date |-> date]
       IN IF ~a.next THEN Blocked("daily-goals.post", in, a)
          ELSE IF title = "" \/ date = ""
          THEN /\ Respond("daily-goals.post", in, a.user, TRUE, 400,
                          ErrBody("Title and date are required"))
               /\ UNCHANGED req
          ELSE Suspend(s, "daily-goals.post", in, a.user)
    /\ UNCHANGED <<now, db, sock, issued, registered, proc>>

\* INSERT INTO daily_goals (user_id, title, ..., date) VALUES (...) RETURNING *
\* status and completed_at take their column defaults
DailyGoalsPostInsert(s) ==
    /\ req[s].op = "daily-goals.post" /\ req[s].pc = "db"
    /\ \E up \in BOOLEAN :
         /\ Storage(up)
         /\ LET row == [id |-> goalsSeq + 1, user_id |-> req[s].user[1].id[1],
                        title |-> req[s].in.title, date |-> req[s].in.date,
                        status |-> "pending", completed_at |-> <<>>]
            IN IF up
               THEN /\ goals' = goals \cup {row}
                    /\ goalsSeq' = goalsSeq + 1
                    /\ Resume(s, DbRows({row}))
               ELSE /\ UNCHANGED <<goals, goalsSeq>>
                    /\ Resume(s, DbThrow("connection", ""))
    /\ resp' = <<>>
    /\ UNCHANGED <<now, users, usersSeq, tasks, tasksSeq, sock, issued, registered, proc>>

DailyGoalsPostFinish(s) ==
    /\ req[s].op = "daily-goals.post" /\ req[s].pc = "resume"
    /\ LET r == req[s].tmp IN
       IF r.err # <<>>
       THEN Respond("daily-goals.post", req[s].in, req[s].user, TRUE, 500,
                    ErrBody("Failed to create daily goal"))
       ELSE Respond("daily-goals.post", req[s].in, req[s].user, TRUE, 201,
                    CHOOSE g \in r.rows : TRUE)
    /\ Finish(s)
    /\ UNCHANGED <<now, db, sock, issued, registered, left, proc>>

\* SET status = COALESCE($3, status), title = COALESCE($4, title),
\*     completed_at = NOW() | NULL | completed_at, by the status of the body
GoalPatched(g, in, at) ==
    [g EXCEPT !.status = IF in.status = <<>> THEN @ ELSE in.status[1],
              !.title = IF in.title = <<>> THEN @ ELSE in.title[1],
              !.completed_at = IF in.status = <<"completed">> THEN <<at>>
                               ELSE IF in.status = <<"pending">> THEN <<>>
                               ELSE @]

\* PUT /daily-goals/:id
DailyGoalsPutStart(s, hdr, id, title, status) ==
    /\ FreeSlot(s)
    /\ ClientAction
    /\ LET a == authRequired(hdr.h, now)
           in == [hdr |-> hdr, id |-> id, title |-> title, status |-> status]
       IN IF ~a.next THEN Blocked("daily-goals.put", in, a)
          ELSE Suspend(s, "daily-goals.put", in, a.user)
    /\ UNCHANGED <<now, db, sock, issued, registered, proc>>

\* UPDATE daily_goals SET ... WHERE id = $1 AND user_id = $2 RETURNING *
DailyGoalsPutUpdate(s) ==
    /\ req[s].op = "daily-goals.put" /\ req[s].pc = "db"
    /\ \E up \in BOOLEAN :
         /\ Storage(up)
         /\ LET hit == {g \in goals : g.id = req[s].in.id
                                      /\ g.user_id = req[s].user[1].id[1]}
                updated == {GoalPatched(g, req[s].in, now) : g \in hit}
            IN IF up
               THEN /\ goals' = (goals \ hit) \cup updated
                    /\ Resume(s, DbRows(updated))
               ELSE /\ UNCHANGED goals
                    /\ Resume(s, DbThrow("connection", ""))
    /\ resp' = <<>>
    /\ UNCHANGED <<now, users, usersSeq, tasks, tasksSeq, goalsSeq, sock, issued,
                   registered, proc>>

DailyGoalsPutFinish(s) ==
    /\ req[s].op = "daily-goals.put" /\ req[s].pc = "resume"
    /\ LET r == req[s].tmp IN
       IF r.err # <<>>
       THEN Respond("daily-goals.put", req[s].in, req[s].user, TRUE, 500,
                    ErrBody("Failed to update daily goal"))
       ELSE IF r.rows = {}
       THEN Respond("daily-goals.put", req[s].in, req[s].user, TRUE, 404,
                    ErrBody("Daily goal not found"))
       ELSE Respond("daily-goals.put", req[s].in, req[s].user, TRUE, 200,
                    CHOOSE g \in r.rows : TRUE)
    /\ Finish(s)
    /\ UNCHANGED <<now, db, sock, issued, registered, left, proc>>

\* Alice and Bob have registered on day 0 and hold their tokens; Alice has
\* created one goal, which is pending.
GoalPostBodies ==
    {[title |-> "", date |-> "2026-01-01"],
     [title |-> "run", date |-> ""],
     [title |-> "run", date |-> "2026-01-01"]}

GoalPutBodies ==
    {[title |-> <<>>, status |-> st] :
        st \in {<<>>, <<"pending">>, <<"completed">>, <<"in_progress">>}}
    \cup {[title |-> <<"walk">>, status |-> <<>>]}

\* the ids a client can put in the URL: the goals created so far and one more
GoalIds == 1..(goalsSeq + 1)

InitGoals ==
    /\ proc = Serving
    /\ now = 0
    /\ users = {Alice, Bob}
    /\ usersSeq = 2
    /\ tasks = {}
    /\ tasksSeq = 0
    /\ goals = {[id |-> 1, user_id |-> 1, title |-> "run", date |-> "2026-01-01",
                 status |-> "pending", completed_at |-> <<>>]}
    /\ goalsSeq = 1
    /\ sock = [c \in Conns |-> FreshSock]
    /\ req = [s \in Slots |-> Idle]
    /\ resp = <<>>
    /\ issued = {JwtSign(u.id, u.username, JWT_SECRET, 0) : u \in users}
    /\ registered = [n \in Usernames |-> IF n \in {"alice", "bob"} THEN 1 ELSE 0]
    /\ left = MaxGoalActions

NextGoals ==
    \/ \E s \in Slots, hdr \in HolderHeaders, body \in GoalPostBodies :
         DailyGoalsPostStart(s, hdr, body.title, body.date)
    \/ \E s \in Slots : DailyGoalsPostInsert(s)
    \/ \E s \in Slots : DailyGoalsPostFinish(s)
    \/ \E s \in Slots, hdr \in HolderHeaders, id \in GoalIds, body \in GoalPutBodies :
         DailyGoalsPutStart(s, hdr, id, body.title, body.status)
    \/ \E s \in Slots : DailyGoalsPutUpdate(s)
    \/ \E s \in Slots : DailyGoalsPutFinish(s)

SpecGoals == InitGoals /\ [][NextGoals]_vars

-----------------------------------------------------------------------------
(* Startup: the module body runs top to bottom in one turn; process.exit   *)
(* ends the process at once.  The environment ranges over every way the    *)
(* five variables can be set, and no request arrives during startup.       *)

Halt == proc' = [proc EXCEPT !.pc = "exited"]

\* if (!process.env.PGUSER || !process.env.PGDATABASE || !process.env.PGPASSWORD)
CheckCredentials ==
    /\ proc.pc = "start"
    /\ IF \E n \in Credentials : Missing(proc.env, n)
       THEN Halt
       ELSE proc' = [proc EXCEPT !.pc = "credentials"]
    /\ UNCHANGED <<now, db, sock, req, resp, issued, registered, left>>

\* if (!JWT_SECRET)
CheckSecretWarnOnly ==
    /\ proc.pc = "credentials"
    /\ proc' = [proc EXCEPT !.pc = "secret"]
    /\ UNCHANGED <<now, db, sock, req, resp, issued, registered, left>>
CheckSecret ==
    /\ proc.pc = "credentials"
    /\ IF Missing(proc.env, "JWT_SECRET")
       THEN Halt
       ELSE proc' = [proc EXCEPT !.pc = "secret"]
    /\ UNCHANGED <<now, db, sock, req, resp, issued, registered, left>>

\* server.listen(PORT, '0.0.0.0')
Listen ==
    /\ proc.pc = "secret"
    /\ proc' = [proc EXCEPT !.pc = "listening"]
    /\ UNCHANGED <<now, db, sock, req, resp, issued, registered, left>>

InitBoot ==
    /\ proc \in [pc : {"start"}, env : [EnvNames -> UNION {EnvValues(n) : n \in EnvNames}]]
    /\ \A n \in EnvNames : proc.env[n] \in EnvValues(n)
    /\ now = 0
    /\ users = {}
    /\ usersSeq = 0
    /\ tasks = {}
    /\ tasksSeq = 0
    /\ goals = {}
    /\ goalsSeq = 0
    /\ sock = [c \in Conns |-> FreshSock]
    /\ req = [s \in Slots |-> Idle]
    /\ resp = <<>>
    /\ issued = {}
    /\ registered = [n \in Usernames |-> 0]
    /\ left = 0

NextBoot ==
    \/ CheckCredentials
    \/ CheckSecret
    \/ Listen

SpecBoot == InitBoot /\ [][NextBoot]_vars

-----------------------------------------------------------------------------
(* Properties *)

\* the response of the last step, when it is a response of endpoint op
Sent(op) == resp # <<>> /\ resp[1].op = op

\* a header "Bearer <tok>" whose token is the server-signed token t
Carries(hdr, t) == hdr.label = "bearer" /\ Presented(hdr) = <<J(t)>>

\* the token t, signed by the server, is within its 7 days on day d
Fresh(t, d) == t \in issued /\ d < t.iat + EXPIRES_IN
Stale(t, d) == t \in issued /\ d >= t.iat + EXPIRES_IN

\* the user record for which the server signed t
Holder(t) == {u \in users : t.userId = <<u.id>> /\ t.username = u.username}

NoBearerLabels == {"absent", "empty-token", "wrong-scheme", "wrong-case", "no-space"}

\* C5: a request to a Required endpoint whose Authorization header is absent,
\* does not start with "Bearer ", or carries an empty token is answered
\* 401 Unauthorized; the handler does not run and no identity is attached.
C5_NoTokenUnauthorized ==
    (Sent("verify") /\ resp[1].in.label \in NoBearerLabels)
        => /\ resp[1].status = 401
           /\ resp[1].body.error = "Unauthorized"
           /\ ~resp[1].ran
           /\ resp[1].user = <<>>

\* a header that is exactly "Bearer " was rejected
C5_Witness ==
    /\ Sent("verify")
    /\ resp[1].in.label = "empty-token"
    /\ resp[1].status = 401
    /\ resp[1].body.error = "Unauthorized"

\* the identity authOptional must attach for header hdr on day d: the one of
\* the token when it verifies, none otherwise
OptionalIdentity(hdr, d) ==
    IF \E t \in issued : Carries(hdr, t) /\ Fresh(t, d)
    THEN LET t == CHOOSE t \in issued : Carries(hdr, t) IN
         <<[id |-> t.userId, username |-> t.username]>>
    ELSE IF Carries(hdr, NoUidToken)
    THEN <<[id |-> <<>>, username |-> NoUidToken.username]>>
    ELSE <<>>

\* C6: authOptional never rejects: for an absent, malformed, expired or valid
\* token the request reaches the handler of GET /tasks and the middleware
\* sends no response; the identity is attached exactly when the token
\* verifies and is null otherwise.
C6_OptionalNeverRejects ==
    /\ \A s \in Slots :
         req[s].op = "tasks.get"
             => req[s].user = OptionalIdentity(req[s].in.hdr, req[s].in.at)
    /\ Sent("tasks.get")
         => /\ resp[1].ran
            /\ resp[1].status \in {200, 500}
            /\ resp[1].user = OptionalIdentity(resp[1].in.hdr, resp[1].in.at)

\* GET /tasks answered 200 without identity for an expired token
C6_Witness ==
    /\ Sent("tasks.get")
    /\ resp[1].status = 200
    /\ resp[1].user = <<>>
    /\ \E t \in issued : Carries(resp[1].in.hdr, t) /\ Stale(t, resp[1].in.at)

\* C7: authRequired answers an expired token with 401 "Token expired", a
\* malformed or tampered token and every other verification failure with
\* 401 "Invalid token" (the two with different messages); none of them runs
\* the handler, and only a token that verifies attaches {id, username} and
\* proceeds.
C7_RequiredErrorMapping ==
    (Sent("verify") /\ resp[1].in.label = "bearer")
        => LET hdr == resp[1].in
               rejected(error, message) ==
                   /\ resp[1].status = 401
                   /\ resp[1].body = [error |-> error, message |-> message]
                   /\ ~resp[1].ran
                   /\ resp[1].user = <<>>
           IN /\ (\E t \in issued : Carries(hdr, t) /\ Stale(t, now))
                    => rejected("Token expired", "Please login again")
              /\ (Presented(hdr) = Garbage \/ Carries(hdr, BadSigToken))
                    => rejected("Invalid token", "Token is malformed")
              /\ Carries(hdr, NotBeforeToken)
                    => rejected("Invalid token", "Token verification failed")
              /\ Carries(hdr, NoUidToken) => (resp[1].status = 401 /\ ~resp[1].ran)
              /\ (resp[1].ran \/ resp[1].user # <<>>)
                    => /\ resp[1].status = 200
                       /\ \E t \in issued :
                            /\ Carries(hdr, t) /\ Fresh(t, now)
                            /\ resp[1].user = <<[id |-> t.userId, username |-> t.username]>>

\* an expired token was answered "Token expired"
C7_Witness ==
    /\ Sent("verify")
    /\ resp[1].status = 401
    /\ resp[1].body.error = "Token expired"
    /\ \E t \in issued : Carries(resp[1].in, t)

\* C8: a token signed for user (u, n) on day iat verifies to exactly
\* {userId: u, username: n} on every day before iat + 7 and is rejected as
\* expired on every day from iat + 7 on; it never verifies to another identity.
C8_TokenRoundTrip ==
    /\ \A t \in issued : Cardinality(Holder(t)) = 1
    /\ \A t \in issued :
         (Sent("verify") /\ Carries(resp[1].in, t))
             => LET u == CHOOSE u \in Holder(t) : TRUE IN
                IF now < t.iat + EXPIRES_IN
                THEN /\ resp[1].status = 200
                     /\ resp[1].body.user = [id |-> <<u.id>>, username |-> u.username]
                ELSE /\ resp[1].status = 401
                     /\ resp[1].body.error = "Token expired"
                     /\ resp[1].user = <<>>

\* a token was accepted on the last day of its validity
C8_Witness ==
    /\ Sent("verify")
    /\ resp[1].status = 200
    /\ \E t \in issued : Carries(resp[1].in, t) /\ now = t.iat + EXPIRES_IN - 1

\* registrations of username n whose INSERT succeeded and whose response is
\* still to be sent
PendingWins(n) ==
    {s \in Slots : /\ req[s].op = "register" /\ req[s].pc = "resume"
                   /\ req[s].in.username = n /\ req[s].tmp.err = <<>>}

\* C9: registration with a valid username and password succeeds exactly once
\* per username: every user record stems from exactly one successful
\* registration, a success returns the created user and a token for it, and
\* every other registration of that username that reaches the store, later or
\* racing, is answered 409 and creates no second user.
C9_RegisterOnce ==
    /\ \A n \in Usernames :
         /\ registered[n] + Cardinality(PendingWins(n))
                = Cardinality({u \in users : u.username = n})
         /\ Cardinality({u \in users : u.username = n}) <= 1
    /\ Sent("register")
         => LET n == resp[1].in.username
                valid == /\ Len(n) >= MIN_USERNAME
                         /\ Len(resp[1].in.password) >= MIN_PASSWORD
            IN /\ valid <=> resp[1].status \in {200, 409, 500}
               /\ resp[1].status = 200
                    => /\ \E u \in users :
                            /\ u.username = n
                            /\ resp[1].body.user = [id |-> u.id, username |-> n]
                            /\ resp[1].body.token.userId = <<u.id>>
                       /\ resp[1].body.token \in issued
                       /\ registered[n] = 1
               /\ resp[1].status = 409
                    => /\ \E u \in users : u.username = n
                       /\ registered[n] + Cardinality(PendingWins(n)) = 1
               /\ resp[1].status = 500 => resp[1].body.error = "Failed to register"

\* two registrations of one username raced: one has won, the other is
\* answered 409
C9_Witness ==
    /\ Sent("register")
    /\ resp[1].status = 409
    /\ registered[resp[1].in.username] = 0
    /\ Cardinality(PendingWins(resp[1].in.username)) = 1

\* C10: after a registration with (username, password), a login with the same
\* credentials returns a token T; GET /auth/verify with "Bearer T" succeeds
\* with the identity {id, username} of that user, and with a garbage bearer
\* string it is rejected 401 "Invalid token".
C10_LoginScenario ==
    /\ (Sent("register") /\ resp[1].status = 200)
         => \E u \in users :
              /\ u.username = resp[1].in.username
              /\ BcryptHash(resp[1].in.password, u.password_hash.salt) = u.password_hash
    /\ (Sent("login") /\ resp[1].status \notin {400, 500})
         => LET match == {u \in users :
                            /\ u.username = resp[1].in.username
                            /\ u.password_hash.digest = resp[1].in.password}
            IN /\ (resp[1].in.after /\ match # {}) => resp[1].status = 200
               /\ match = {} => resp[1].status = 401
               /\ resp[1].status \in {200, 401}
               /\ resp[1].status = 200 =>
                    /\ resp[1].body.token \in issued
                    /\ \E u \in match :
                         /\ resp[1].body.user = [id |-> u.id, username |-> u.username]
                         /\ resp[1].body.token.userId = <<u.id>>
                         /\ resp[1].body.token.username = u.username
                         /\ resp[1].body.token.iat = now
    /\ \A t \in issued :
         (Sent("verify") /\ Carries(resp[1].in, t) /\ Fresh(t, now))
             => /\ resp[1].status = 200
                /\ \E u \in users :
                     resp[1].body.user = [id |-> <<u.id>>, username |-> u.username]
                        /\ t.userId = <<u.id>>
    /\ (Sent("verify") /\ resp[1].in.label = "bearer" /\ Presented(resp[1].in) = Garbage)
         => /\ resp[1].status = 401
            /\ resp[1].body.error = "Invalid token"

\* register, login, then the Required endpoint accepted the token
C10_Witness ==
    /\ Sent("verify")
    /\ resp[1].status = 200
    /\ left = MaxActions - 3
    /\ \E n \in Usernames : registered[n] = 1 /\ resp[1].body.user.username = n

-----------------------------------------------------------------------------
(* Properties of the tasks-and-realtime specification *)

TaskEvents == {"task_created", "task_updated", "task_deleted"}

UserIds == {<<u.id>> : u \in users}

\* the task events delivered to connection c so far
Delivered(c) ==
    {sock[c].inbox[i] : i \in {j \in 1..Len(sock[c].inbox) : sock[c].inbox[j].event \in TaskEvents}}

\* C1: a connection that has only ever authenticated successfully with
\* tokens of user A has been delivered task events only of requests whose
\* identity is A, never one of a request of another user B, whoever else is
\* connected.
C1_ChannelIsolation ==
    \A c \in Conns : \A a \in UserIds :
        sock[c].authed \subseteq {a} => \A m \in Delivered(c) : m.by = a

\* Alice's connection is open while Bob's request emitted an event that
\* Bob's connection received
C1_Witness ==
    \E ca, cb \in Conns :
        /\ sock[ca].state = "connected" /\ sock[ca].authed = {<<Alice.id>>}
        /\ sock[cb].authed = {<<Bob.id>>}
        /\ \E m \in Delivered(cb) : m.by = <<Bob.id>>
        /\ \A m \in Delivered(ca) : m.by # <<Bob.id>>

MutatingOps ==
    {"tasks.post", "tasks.put", "tasks.delete", "tasks.clear-completed", "tasks.mark-all-done"}

\* the handler in slot s sends its response in this step, and it is 200
Succeeds(s) ==
    /\ req[s].pc = "resume"
    /\ resp' # <<>> /\ resp'[1].status = 200
    /\ resp'[1].op = req[s].op /\ resp'[1].in = req[s].in
    /\ resp'[1].user = req[s].user

\* C2: every task-mutating operation (create, update, delete,
\* clear-completed, mark-all-done) that succeeds delivers exactly one event
\* to every connection that is in the acting user's room when it is emitted.
C2_OneEventPerMutation ==
    [][\A s \in Slots :
         (req[s].op \in MutatingOps /\ Succeeds(s))
             => \A c \in RoomMembers(Room(req[s].user[1].id)) :
                  /\ Len(sock'[c].inbox) = Len(sock[c].inbox) + 1
                  /\ sock'[c].inbox[Len(sock'[c].inbox)].event \in TaskEvents
                  /\ sock'[c].inbox[Len(sock'[c].inbox)].by = req[s].user[1].id]_vars

\* C3: every handler that reads or changes tasks does so for an attached
\* identity and only on rows of that identity: a response never contains a
\* row owned by another user, and a request without a valid token reads no
\* row and changes none.
C3_TenantIsolation ==
    /\ \A s \in Slots :
         (req[s].op \in MutatingOps /\ req[s].pc = "resume")
             => /\ req[s].user # <<>>
                /\ \A t \in req[s].tmp.rows : <<t.user_id>> = req[s].user[1].id
    /\ (Sent("tasks.get") /\ resp[1].status = 200)
         => /\ resp[1].user # <<>>
            /\ \A t \in resp[1].body.rows : <<t.user_id>> = resp[1].user[1].id

\* C4: every connection is a member of at most one user room, whatever
\* authenticate actions it has sent.
C4_AtMostOneRoom ==
    \A c \in Conns : Cardinality(sock[c].rooms) <= 1

\* C18: the server listens only when the signing secret and the three
\* storage credentials are all present: with one of them absent the process
\* halts before server.listen.
C18_StartupGate ==
    proc.pc = "listening"
        => \A n \in Credentials \cup {"JWT_SECRET"} : ~Missing(proc.env, n)
C18_Witness ==
    /\ proc.pc = "exited"
    /\ Missing(proc.env, "JWT_SECRET")
    /\ \A n \in Credentials : ~Missing(proc.env, n)

Verifies(token) == JwtVerify(token, JWT_SECRET, now).name = "ok"
UserIdOf(token) == JwtVerify(token, JWT_SECRET, now).payload[1].userId
Ack == Msg("authenticated", [ok |-> TRUE], <<>>)
Nack == Msg("auth_error", [error |-> "Invalid token"], <<>>)

\* C11: an authenticate(token) whose token verifies leaves the connection a
\* member of exactly the room named for the token's userId, appends
\* authenticated({ok: true}) to that connection and sends nothing to any
\* other connection.  The tokens are those the server has issued.
C11_AuthenticatedTransition ==
    [][\A c \in Conns : \A token \in {<<J(t)>> : t \in issued} :
         (Authenticate(c, token) /\ Verifies(token))
             => /\ sock'[c].rooms = {Room(UserIdOf(token))}
                /\ sock'[c].inbox = Append(sock[c].inbox, Ack)
                /\ \A d \in Conns \ {c} : sock'[d] = sock[d]]_vars

\* C12: an authenticate(token) whose token does not verify appends
\* auth_error to that connection only, leaves its rooms as they were and
\* leaves it connected; an authenticate with a valid token on a connection
\* that was rejected before joins the room and is acknowledged.
C12_RejectedTransition ==
    [][(req' = req /\ now' = now) =>
         \A c \in Conns : sock'[c] # sock[c] =>
           \A token \in SocketTokens :
             /\ (Authenticate(c, token) /\ ~Verifies(token))
                  => /\ sock'[c] = [sock[c] EXCEPT !.inbox = Append(@, Nack)]
                     /\ sock'[c].state = "connected"
                     /\ \A d \in Conns \ {c} : sock'[d] = sock[d]
             /\ (Authenticate(c, token) /\ Verifies(token)
                    /\ \E i \in 1..Len(sock[c].inbox) : sock[c].inbox[i] = Nack)
                  => /\ Room(UserIdOf(token)) \in sock'[c].rooms
                     /\ sock'[c].inbox = Append(sock[c].inbox, Ack)]_vars
C12_Witness ==
    \E c \in Conns : \E i, j \in 1..Len(sock[c].inbox) :
        /\ i < j /\ j = Len(sock[c].inbox)
        /\ sock[c].inbox[i] = Nack /\ sock[c].inbox[j] = Ack
        /\ sock[c].state = "connected"

EmittingOps == {"tasks.post", "tasks.put", "tasks.delete"}

\* C13: nothing but its own disconnect takes a connection out of a room it
\* has joined, in particular not the passing of its token's expiry, and
\* every event emitted for a user is delivered to every member of the
\* user's room, on whatever day.
C13_NoExpiryEnforcement ==
    [][\A c \in Conns :
         (sock[c].state = "connected" /\ sock'[c].state = "connected")
             => /\ sock[c].rooms \subseteq sock'[c].rooms
                /\ \A s \in Slots :
                     (req[s].op \in EmittingOps /\ Succeeds(s)
                         /\ Room(req[s].user[1].id) \in sock[c].rooms)
                       => /\ Len(sock'[c].inbox) = Len(sock[c].inbox) + 1
                          /\ sock'[c].inbox[Len(sock'[c].inbox)].event \in TaskEvents]_vars

\* every issued token has expired, and a request admitted before the expiry
\* has just emitted its event to a connection still in the user's room
C13_Witness ==
    /\ \A t \in issued : Stale(t, now)
    /\ resp # <<>> /\ resp[1].status = 200 /\ resp[1].op \in EmittingOps
    /\ \E c \in Conns :
         /\ sock[c].state = "connected"
         /\ sock[c].authed = {resp[1].user[1].id}
         /\ Room(resp[1].user[1].id) \in sock[c].rooms
         /\ sock[c].inbox[Len(sock[c].inbox)].event \in TaskEvents
         /\ sock[c].inbox[Len(sock[c].inbox)].by = resp[1].user[1].id

\* C14: a connection that has disconnected is in no room, is delivered
\* nothing from then on and never changes state again; the members of a
\* room are connected sockets only, so a room whose last member
\* disconnected has none.
C14_ClosedIsTerminal ==
    [][\A c \in Conns :
         /\ sock'[c].state = "closed" => sock'[c].rooms = {}
         /\ sock'[c].rooms # {} => sock'[c].state = "connected"
         /\ sock[c].state = "closed" => sock'[c] = sock[c]]_vars

\* a connection of a user has closed, and a later request of that user has
\* just emitted its event
C14_Witness ==
    \E c \in Conns :
        /\ sock[c].state = "closed" /\ sock[c].authed # {}
        /\ resp # <<>> /\ resp[1].status = 200 /\ resp[1].op \in EmittingOps
        /\ resp[1].user[1].id \in sock[c].authed
        /\ RoomMembers(Room(resp[1].user[1].id)) = {}
        /\ Delivered(c) = {}

\* C15: the task_created events of one user reach each connection in the
\* order in which the rows were inserted (ids come from the table's
\* sequence at the INSERT, so the order of the ids is the order of the
\* commits).
C15_EventsInCommitOrder ==
    \A c \in Conns : \A i, j \in 1..Len(sock[c].inbox) :
        (/\ i < j
         /\ sock[c].inbox[i].event = "task_created"
         /\ sock[c].inbox[j].event = "task_created"
         /\ sock[c].inbox[i].by = sock[c].inbox[j].by)
            => sock[c].inbox[i].data.id < sock[c].inbox[j].data.id

\* C16: a step appends at most one message to a connection; a task event is
\* appended only in the step in which a handler emits it, and only to
\* connections that are in the acting user's room before that step.  So a
\* connection that joins the room later is never delivered the event.
C16_FireAndForget ==
    [][\A c \in Conns :
         \/ sock'[c].inbox = sock[c].inbox
         \/ /\ Len(sock'[c].inbox) = Len(sock[c].inbox) + 1
            /\ SubSeq(sock'[c].inbox, 1, Len(sock[c].inbox)) = sock[c].inbox
            /\ LET m == sock'[c].inbox[Len(sock'[c].inbox)] IN
               m.event \in TaskEvents
                  => /\ Room(m.by) \in sock[c].rooms
                     /\ \E s \in Slots : /\ req[s].op \in EmittingOps
                                         /\ Succeeds(s)
                                         /\ req[s].user[1].id = m.by]_vars

\* connection c joined the room of a user after an event of that user had
\* been delivered to connection d, and c has not been delivered it
C16_Witness ==
    \E c, d \in Conns : \E m \in Delivered(d) :
        /\ c # d
        /\ Room(m.by) \in sock[c].rooms
        /\ sock[c].inbox[Len(sock[c].inbox)] = Ack
        /\ m \notin Delivered(c)

OwnershipOps == {"tasks.put", "tasks.delete"}

\* the storage statement of the handler in slot s executes in this step
Executes(s) ==
    /\ req[s].pc = "db"
    /\ req'[s] = [req[s] EXCEPT !.pc = "resume", !.tmp = req'[s].tmp]
    /\ \A r \in Slots \ {s} : req'[r] = req[r]

\* the handler in slot s sends its response and ends in this step
Finishes(s) ==
    /\ req[s].pc = "resume"
    /\ resp' # <<>>
    /\ req' = [r \in Slots |-> IF r < s THEN req[r]
                               ELSE IF r + 1 \in Slots THEN req[r + 1] ELSE Idle]

\* no row has the id of the request in slot s and the user of that request
NoRowOfCaller(s) ==
    \A t \in tasks : ~(t.id = req[s].in.id /\ <<t.user_id>> = req[s].user[1].id)

\* C19 as stated: a PUT or DELETE /tasks/:id of an authenticated user that
\* is not answered 200 or 500 and whose task does not exist or belongs to
\* another user is answered 404.
C19_NotOwnedIs404 ==
    (/\ resp # <<>> /\ resp[1].op \in OwnershipOps /\ resp[1].ran
     /\ resp[1].status \notin {200, 500}
     /\ \A t \in tasks : ~(t.id = resp[1].in.id /\ <<t.user_id>> = resp[1].user[1].id))
        => resp[1].status = 404

\* C19, amended: when the UPDATE or DELETE of PUT/DELETE /tasks/:id executes
\* against an id that is no row of the caller (absent, or another user's),
\* it changes no row and returns none, and the handler then answers 404
\* and emits no event.  (A PUT that names no field is answered 400 before
\* any statement is issued.)
C19_OwnershipOnWrite ==
    [][\A s \in Slots :
         req[s].op \in OwnershipOps =>
           /\ (Executes(s) /\ NoRowOfCaller(s))
                => /\ tasks' = tasks /\ sock' = sock
                   /\ req'[s].tmp.rows = {}
           /\ (Finishes(s) /\ req[s].tmp.err = <<>> /\ req[s].tmp.rows = {})
                => /\ resp'[1].status = 404
                   /\ tasks' = tasks /\ sock' = sock]_vars

\* a 404 to a PUT or DELETE aimed at a row that exists and is another user's
C19_Witness ==
    /\ resp # <<>> /\ resp[1].op \in OwnershipOps /\ resp[1].status = 404
    /\ \E t \in tasks : t.id = resp[1].in.id /\ <<t.user_id>> # resp[1].user[1].id

\* the stored password of the account of userId uid is no longer the one it
\* registered with
PasswordChanged(uid) ==
    \E u \in users : <<u.id>> = uid /\ u.password_hash.digest # "secret1"

\* C17: a token issued before the password of its account was changed by
\* change-password or reset-password is, within its 7 days, still accepted
\* by authRequired (GET /auth/verify answers 200 with its identity, and
\* change-password is not stopped by the middleware) and by the realtime
\* authenticate action.
C17_NoRevocation ==
    [][\A t \in issued :
         (Fresh(t, now) /\ PasswordChanged(t.userId)) =>
           /\ \A hdr \in HolderHeaders :
                (AuthVerify(hdr) /\ Carries(hdr, t))
                   => /\ resp'[1].status = 200
                      /\ resp'[1].user = <<Identity(t)>>
           /\ \A hdr \in HolderHeaders : \A s \in Slots : \A body \in ChangeBodies :
                (/\ ChangePasswordStart(s, hdr, body.currentPassword, body.newPassword)
                 /\ Carries(hdr, t))
                   => (resp' = <<>> \/ resp'[1].ran)
           /\ \A c \in Conns :
                Authenticate(c, <<J(t)>>)
                   => /\ Room(t.userId) \in sock'[c].rooms
                      /\ sock'[c].inbox = Append(sock[c].inbox, Ack)]_vars

\* the password of an account has been changed, and GET /auth/verify has
\* just accepted the token issued for it before
C17_Witness ==
    /\ Sent("verify") /\ resp[1].status = 200
    /\ \E t \in issued :
         /\ Carries(resp[1].in, t) /\ Fresh(t, now)
         /\ PasswordChanged(t.userId)
         /\ resp[1].user = <<Identity(t)>>

\* C20: a 500 response carries no message of the storage driver.
C20_NoDriverDetail ==
    (resp # <<>> /\ resp[1].status = 500 /\ proc.env["NODE_ENV"] = <<"production">>)
        => resp[1].body.error \notin DriverMessages

\* the task event, if any, that this step appends to the inbox of c
Appended(c) ==
    IF Len(sock'[c].inbox) > Len(sock[c].inbox)
    THEN {sock'[c].inbox[i] : i \in (Len(sock[c].inbox) + 1)..Len(sock'[c].inbox)}
    ELSE {}

\* C22: a task event is appended to an inbox only in the step in which a
\* create/update/delete handler answers 200, after its storage statement
\* returned the row (or the row count) without an exception; a handler that
\* answers 400, 401, 404 or 500 changes no inbox.
C22_EmitAfterCommit ==
    [][/\ \A c \in Conns : \A m \in Appended(c) :
            m.event \in TaskEvents =>
              \E s \in Slots :
                 /\ Finishes(s) /\ req[s].op \in EmittingOps
                 /\ req[s].tmp.err = <<>> /\ req[s].tmp.rows # {}
                 /\ resp'[1].status = 200
                 /\ m.by = req[s].user[1].id
                 /\ IF req[s].op = "tasks.delete"
                    THEN m.event = "task_deleted" /\ m.data.id = req[s].in.id
                    ELSE m.data \in req[s].tmp.rows
       /\ (/\ resp' # <<>> /\ resp'[1].op \in EmittingOps
           /\ resp'[1].status \in {400, 401, 404, 500})
            => sock' = sock]_vars

\* a DELETE has just been answered 404 while a connection is in the caller's room
C22_Witness ==
    /\ resp # <<>> /\ resp[1].op = "tasks.delete" /\ resp[1].status = 404
    /\ \E c \in Conns : /\ Room(resp[1].user[1].id) \in sock[c].rooms
                        /\ Delivered(c) = {}

\* C23: the UPDATE of PUT /tasks/:id sets, on the caller's row with that id,
\* the fields the body names and updated_at, and leaves its other fields,
\* its owner and every other row as they were; a PUT whose body names no
\* field is answered 400 by the handler and changes nothing.
C23_PartialUpdateFrame ==
    [][/\ \A s \in Slots :
            (req[s].op = "tasks.put" /\ Executes(s) /\ req'[s].tmp.err = <<>>)
              => /\ Cardinality(tasks') = Cardinality(tasks)
                 /\ \A t \in tasks :
                      IF t.id = req[s].in.id /\ <<t.user_id>> = req[s].user[1].id
                      THEN [id |-> t.id, user_id |-> t.user_id,
                            title |-> IF req[s].in.title = <<>> THEN t.title
                                      ELSE req[s].in.title[1],
                            status |-> IF req[s].in.status = <<>> THEN t.status
                                       ELSE req[s].in.status[1],
                            updated_at |-> now] \in tasks'
                      ELSE t \in tasks'
       /\ (/\ resp' # <<>> /\ resp'[1].op = "tasks.put" /\ resp'[1].ran
           /\ resp'[1].in.title = <<>> /\ resp'[1].in.status = <<>>)
            => /\ resp'[1].status = 400
               /\ tasks' = tasks /\ req' = req /\ sock' = sock]_vars

\* a PUT that named only the status has been answered with the row: its
\* title is the one it had, its status the one sent
C23_Witness ==
    /\ Sent("tasks.put") /\ resp[1].status = 200
    /\ resp[1].in.title = <<>> /\ resp[1].in.status = <<"done">>
    /\ resp[1].body.id = 1 /\ resp[1].body.title = "milk" /\ resp[1].body.status = "done"
    /\ \E t \in tasks : t.id = 2 /\ t.updated_at = 0

\* C25: a step is an authenticate action on connection c exactly when it
\* appends an acknowledgement to c, and it appends exactly one: either
\* authenticated, together with the join, or auth_error, with no join.
C25_SingleShotAuthenticate ==
    [][\A c \in Conns :
         /\ (left' # left /\ req' = req /\ now' = now
               /\ \E token \in SocketTokens : Authenticate(c, token))
              => \/ /\ sock'[c].inbox = Append(sock[c].inbox, Ack)
                    /\ \E room \in sock'[c].rooms : sock'[c].rooms = sock[c].rooms \cup {room}
                 \/ /\ sock'[c].inbox = Append(sock[c].inbox, Nack)
                    /\ sock'[c].rooms = sock[c].rooms
         /\ (Appended(c) \cap {Ack, Nack} # {})
              => /\ Len(sock'[c].inbox) = Len(sock[c].inbox) + 1
                 /\ \E token \in SocketTokens : Authenticate(c, token)
         /\ ~(sock'[c].rooms \subseteq sock[c].rooms)
              => sock'[c].inbox = Append(sock[c].inbox, Ack)]_vars

\* a joined connection whose second authenticate failed holds one
\* acknowledgement per action
C25_Witness ==
    \E c \in Conns :
        /\ sock[c].inbox = <<Ack, Nack>>
        /\ sock[c].rooms # {} /\ sock[c].state = "connected"

\* C26: an authenticate(token) is acknowledged with authenticated exactly
\* when authRequired attaches an identity for "Bearer <token>", and the room
\* joined is the room of that identity.
C26_SameTokensAccepted ==
    [][\A c \in Conns : \A token \in SocketTokens :
         (left' # left /\ req' = req /\ Authenticate(c, token))
            => LET a == authRequired(BearerPrefix \o token, now) IN
               /\ (sock'[c].inbox = Append(sock[c].inbox, Ack)) <=> a.next
               /\ a.next => Room(a.user[1].id) \in sock'[c].rooms
               /\ ~a.next => sock'[c].rooms = sock[c].rooms]_vars

\* a registration body the validation must refuse
InvalidRegistration(in) ==
    \/ in.username = "" \/ in.password = ""
    \/ Len(in.username) < 3 \/ Len(in.password) < 6

\* C24: a POST /auth/register whose username or password is missing, whose
\* username has fewer than 3 characters or whose password has fewer than 6
\* is answered 400 in the step in which it arrives, which changes neither
\* the users table nor the set of issued tokens; it never reaches storage.
C24_RegisterValidation ==
    [][/\ (resp' # <<>> /\ resp'[1].op = "register" /\ InvalidRegistration(resp'[1].in))
            => /\ resp'[1].status = 400
               /\ users' = users /\ usersSeq' = usersSeq
               /\ issued' = issued /\ registered' = registered
       /\ \A s \in Slots :
            req'[s].op = "register" => ~InvalidRegistration(req'[s].in)]_vars

\* after a registration has succeeded, one with a short password has just
\* been refused
C24_Witness ==
    /\ Sent("register") /\ resp[1].status = 400
    /\ resp[1].in.username = "bob" /\ resp[1].in.password = "short"
    /\ users # {} /\ \A u \in users : u.username # "bob"
    /\ Cardinality(issued) = Cardinality(users)

\* C27: the stored password hash of a user changes only in a step of a
\* request that passed authRequired with a token of that same user; a
\* request without credentials, or one authenticated as another user, never
\* changes it.
C27_HashChangesOnlyForCaller ==
    [][\A u \in users : \A v \in users' :
         (v.id = u.id /\ v.password_hash # u.password_hash) =>
            \E s \in Slots :
               /\ req[s].pc = "db2" /\ req'[s].pc = "resume2"
               /\ req[s].user # <<>>
               /\ req[s].user[1].id = <<u.id>>]_vars

\* C29: the current password of every user has at least 6 characters.
C29_PasswordLength ==
    \A u \in users : Len(u.password_hash.digest) >= 6

\* the row a SELECT of one user returned to the request in slot s
Selected(s) == CHOOSE u \in req[s].tmp.rows : TRUE

\* the SELECT of the request in slot s returned a row
Found(s) ==
    /\ req[s].pc = "resume" /\ req[s].tmp.err = <<>> /\ req[s].tmp.rows # {}

\* the request in slot s goes on from its SELECT to its UPDATE
Proceeds(s) ==
    /\ req[s].pc = "resume" /\ req'[s].pc = "db2"
    /\ req'[s].op = req[s].op /\ req'[s].in = req[s].in /\ req'[s].user = req[s].user
    /\ \A r \in Slots \ {s} : req'[r] = req[r]

\* C28: change-password goes on to its UPDATE only when currentPassword
\* matches the hash it selected for the caller: when it does not match, the
\* request is answered 401 and the users table is unchanged.  A successful
\* UPDATE leaves the caller with a hash that matches newPassword and, the
\* two passwords differing, no longer matches currentPassword; it changes
\* no other row.  A login that found its user is answered 200 when its
\* password matches the stored hash and 401 when it does not.
C28_ChangePasswordChecksCurrent ==
    [][\A s \in Slots :
         /\ (/\ req[s].op = "change-password" /\ Found(s)
             /\ ~BcryptCompare(req[s].in.currentPassword, Selected(s).password_hash)
             /\ (Finishes(s) \/ Proceeds(s)))
               => /\ Finishes(s)
                  /\ resp'[1].op = "change-password" /\ resp'[1].status = 401
                  /\ users' = users
         /\ (/\ req[s].op = "change-password" /\ req[s].pc = "db2"
             /\ req'[s].pc = "resume2" /\ users' # users)
               => /\ \A u \in users : <<u.id>> # req[s].user[1].id => u \in users'
                  /\ \A v \in users' : <<v.id>> = req[s].user[1].id =>
                       /\ BcryptCompare(req[s].in.newPassword, v.password_hash)
                       /\ req[s].in.newPassword # req[s].in.currentPassword
                            => ~BcryptCompare(req[s].in.currentPassword, v.password_hash)
         /\ (req[s].op = "login" /\ Found(s) /\ Finishes(s))
               => /\ resp'[1].op = "login"
                  /\ BcryptCompare(req[s].in.password, Selected(s).password_hash)
                       => resp'[1].status = 200
                  /\ ~BcryptCompare(req[s].in.password, Selected(s).password_hash)
                       => resp'[1].status = 401]_vars

\* Alice has changed her password to "short", which only change-password
\* stores, and her login with the old password has just been refused
C28_Witness ==
    /\ Sent("login") /\ resp[1].status = 401
    /\ resp[1].in.username = "alice" /\ resp[1].in.password = "secret1"
    /\ \E u \in users : u.username = "alice" /\ u.password_hash.digest = "short"

\* C21: no two user records share a username, and no two user records
\* share a phone that is not null.
C21_UniqueUsernameAndPhone ==
    \A u, v \in users :
       u # v => /\ u.username # v.username
                /\ u.phone # <<>> => u.phone # v.phone

\* create-demo-user has just answered 200 for a username that was already
\* stored: the statement took a new id from the sequence and returned the
\* id of the existing row, which now carries the demo phone
C21_Witness ==
    /\ Sent("create-demo-user") /\ resp[1].status = 200
    /\ resp[1].body.user.id < usersSeq
    /\ Cardinality(users) = 3
    /\ \E u \in users : u.username = DEMO_USERNAME /\ u.phone = <<DEMO_PHONE>>

\* C30: the completed_at of a daily goal is not null if and only if its
\* status is 'completed'.
C30_CompletedAtIffCompleted ==
    \A g \in goals : (g.completed_at # <<>>) <=> (g.status = "completed")

====
